---- MODULE Spec2Model ----
(***************************************************************************)
(* Model of the telephony-billing REST backend (src/app).                  *)
(*                                                                         *)
(* State: the Redis token store, the relational tables the modelled        *)
(* handlers read or write, and one record per concurrently served request  *)
(* (its position between two awaits, its inputs, its response).            *)
(*                                                                         *)
(* Granularity: a handler is a coroutine; every `await` on Redis or on the *)
(* database is one round trip, and other requests run between two round    *)
(* trips.  Each action below is one round trip together with the           *)
(* synchronous code around it: the first action of a handler takes the     *)
(* request's inputs and runs up to the second await.  An INSERT,           *)
(* UPDATE or DELETE statement and the commit that follows it are one step: *)
(* the row becomes visible to other sessions at the commit.                *)
(*                                                                         *)
(* Strings whose content the code inspects (the Authorization header, the  *)
(* token, the cache key) are sequences of one-character strings.           *)
(***************************************************************************)
EXTENDS Integers, Sequences, FiniteSets, TLC

(***************************************************************************)
(* Bounds of the model.                                                    *)
(***************************************************************************)
\* number of requests served concurrently
NumSlots == 2
\* access_token_ttl of the configuration the model runs with, in clock ticks
MaxTTL == 2
\* number of tokens uuid4 can hand out before logins are refused by the model
MaxTokens == 2
\* number of Call rows start_call requests may create
MaxCalls == 2
\* number of INSERTs create_phone_number requests may run
MaxPhones == 3
\* number of INSERTs into one table that concurrent requests may run
MaxInserts == 2
\* the number of Call rows the tables of the analytical queries hold
MaxStatCalls == 2
\* the number of Call rows the tables of the charge reports hold
MaxChargedCalls == 3
\* the number of Payment rows the tables of the in-debt query hold
MaxPayments == 3

Slots == 1..NumSlots

VARIABLES
    admins,         \* table admins: id -> [username, password]
    rates,          \* table rates: id -> [cost]
    categories,     \* table categories: id -> [name, discount_mtp, rate_id]
    countries,      \* table countries: id -> [name, minute_cost]
    cities,         \* table cities: id -> [name, zip_code, country_id]
    payments,       \* table payments: id -> [amount, customer_id, status]
    id_seq,         \* last value of the identity sequence of the id column
                    \* of customers, phone_numbers, cities and categories
    customers,      \* table customers: id -> row
    phone_numbers,  \* table phone_numbers: id -> [number, customer_id]
    calls,          \* table calls: id -> row
    call_id_seq,    \* last value of the identity sequence of calls.id
    cache,          \* Redis: key -> [value, ttl]
    issued,         \* values uuid.uuid4() has returned so far
    pc,             \* per request slot: position of the handler, "idle" if none
    arg,            \* per request slot: inputs and locals of the handler
    resp            \* the last response sent, with the request it answers

\* the tables no route of the call life cycle writes
catalog == <<rates, categories, countries, cities, payments, id_seq>>
db == <<admins, catalog, customers, phone_numbers, calls, call_id_seq>>
vars == <<admins, rates, categories, countries, cities, payments, id_seq,
          customers, phone_numbers, calls, call_id_seq,
          cache, issued, pc, arg, resp>>

(***************************************************************************)
(* Settings (src/app/settings.py).                                         *)
(***************************************************************************)
access_token_ttl == MaxTTL
secret_key == <<"k">>
\* Misc.max_phone_numbers, the default
max_phone_numbers == 3

(***************************************************************************)
(* Responses.                                                              *)
(***************************************************************************)
NoArg == [op |-> "none"]
\* a response is kept the way an access log shows it: the route, its path
\* parameters, the status, and the content (the detail of an error, or the
\* body)
NoPath == <<>>
NoResp ==
    [op |-> "none", path |-> NoPath, status |-> 0, detail |-> "", body |-> <<>>]
Response(op, path, code, body) ==
    [op |-> op, path |-> path, status |-> code, detail |-> "", body |-> body]
HTTPException(op, path, code, detail) ==
    [op |-> op, path |-> path, status |-> code, detail |-> detail, body |-> <<>>]

\* the handler in slot r ends with response `answer`
Return(r, answer) ==
    /\ pc' = [pc EXCEPT ![r] = "idle"]
    /\ arg' = [arg EXCEPT ![r] = NoArg]
    /\ resp' = answer

\* the handler in slot r goes on to position `next` with locals `locals`
Goto(r, next, locals) ==
    /\ pc' = [pc EXCEPT ![r] = next]
    /\ arg' = [arg EXCEPT ![r] = locals]
    /\ UNCHANGED resp

(***************************************************************************)
(* Strings.                                                                *)
(***************************************************************************)
Bearer == <<"B", "e", "a", "r", "e", "r", " ">>

\* s.replace(old, '') for a non-empty old: every non-overlapping occurrence
\* of old, found left to right, is removed.
RECURSIVE StrRemoveAll(_, _)
StrRemoveAll(s, old) ==
    IF Len(s) < Len(old) THEN s
    ELSE IF SubSeq(s, 1, Len(old)) = old
         THEN StrRemoveAll(SubSeq(s, Len(old) + 1, Len(s)), old)
         ELSE <<Head(s)>> \o StrRemoveAll(Tail(s), old)

\* CacheKey.access_token.format(token=token)
CacheKeyPrefix == <<"access_token:">>
\* the key without the token filled in
CacheKey_NoToken(token) == CacheKeyPrefix

CacheKey_access_token(token) == CacheKeyPrefix \o token

(***************************************************************************)
(* Redis commands (redis.asyncio.Redis as used by the code).               *)
(***************************************************************************)
\* GET key: the value, or None for a key that is absent or has expired
None == <<"None">>
RedisGet(store, key) ==
    IF key \in DOMAIN store THEN store[key].value ELSE None

\* SET key value EX seconds
RedisSet(store, key, value, ex) ==
    [k \in DOMAIN store \cup {key} |->
        IF k = key THEN [value |-> value, ttl |-> ex] ELSE store[k]]

\* EXPIRE key seconds: sets the time to live of an existing key; a missing
\* key is left missing (the command answers 0, which the caller ignores)
RedisExpire(store, key, seconds) ==
    IF key \in DOMAIN store
    THEN [store EXCEPT ![key].ttl = seconds]
    ELSE store

\* one clock tick of the server: every time to live drops by one and the
\* keys whose time has run out are gone
RedisTick(store) ==
    [k \in {j \in DOMAIN store : store[j].ttl > 1} |->
        [store[k] EXCEPT !.ttl = @ - 1]]

EmptyStore == [k \in {} |-> None]

\* the value Redis holds and hands back for an integer written by the client:
\* its decimal rendering, a non-empty string
RedisStr(n) == <<"str", n>>

\* Python truth value of what GET returned: None and '' are false
Truthy(v) == v # None /\ v # <<>>

(***************************************************************************)
(* Passwords (src/app/utils.py).  SHA-256 is taken to be collision free:   *)
(* the digest is identified with the text that was hashed.                 *)
(***************************************************************************)
Sha256Hex(text) == <<"sha256", text>>
generate_password_hash(password) == Sha256Hex(secret_key \o password)

(***************************************************************************)
(* Inputs.                                                                 *)
(***************************************************************************)
Digits == <<"1", "2", "3", "4", "5", "6", "7", "8", "9">>
Uuids == {<<"u", Digits[i]>> : i \in 1..MaxTokens}

Usernames == {<<"r", "o", "o", "t">>, <<"b", "o", "b">>, <<"e", "v", "e">>}
Passwords == {<<"p">>, <<"q">>}

\* the Authorization header: absent, or a string
NoHeader == [present |-> FALSE, value |-> <<>>]
Header(s) == [present |-> TRUE, value |-> s]
HeaderStrings ==
    {<<>>, Bearer}
    \cup Uuids
    \cup {Bearer \o t : t \in Uuids}
    \cup {Bearer \o Bearer \o t : t \in Uuids}
    \cup {<<t[1]>> \o Bearer \o <<t[2]>> : t \in Uuids}
Headers == {NoHeader} \cup {Header(s) : s \in HeaderStrings}

(***************************************************************************)
(* POST /auth/login (src/app/routers/auth.py).                             *)
(***************************************************************************)
\* session.scalar(select(Admin).filter_by(username=username)): the first
\* matching row, or None
NoAdmin == [found |-> FALSE, id |-> 0]
SelectAdmin(username) ==
    LET hit == {a \in DOMAIN admins : admins[a].username = username}
    IN IF hit = {} THEN NoAdmin
       ELSE [found |-> TRUE, id |-> CHOOSE a \in hit : TRUE]

\* the comparison with the password hash left out
CredentialsValid_UsernameOnly(admin, password) == admin.found

\* not (not admin or admin.password != generate_password_hash(password))
CredentialsValid(admin, password) ==
    /\ admin.found
    /\ admins[admin.id].password = generate_password_hash(password)

\* the admin is read and the credentials are compared; on success uuid4()
\* draws the token, a value it has not returned before
Login(r, username, password) ==
    /\ pc[r] = "idle"
    /\ LET admin == SelectAdmin(username)
       IN IF ~CredentialsValid(admin, password)
          THEN /\ Return(r, HTTPException("login", NoPath, 401,
                                           "Invalid credentials."))
               /\ UNCHANGED issued
          ELSE \E token \in Uuids \ issued :
               /\ issued' = issued \cup {token}
               /\ Goto(r, "login_set", [op |-> "login",
                                        username |-> username,
                                        admin_id |-> admin.id,
                                        token |-> token])
    /\ UNCHANGED <<db, cache>>

\* cache.set(cache_key, admin.id, ex=access_token_ttl); the token is returned
LoginSet(r) ==
    /\ pc[r] = "login_set"
    /\ cache' = RedisSet(cache, CacheKey_access_token(arg[r].token),
                         RedisStr(arg[r].admin_id), access_token_ttl)
    /\ Return(r, Response("login", NoPath, 200,
                          [access_token |-> arg[r].token,
                           token_type |-> "bearer"]))
    /\ UNCHANGED <<db, issued>>

(***************************************************************************)
(* The authorization gate (src/app/dependencies.py), run before the        *)
(* handler of every protected route.                                       *)
(***************************************************************************)
\* authorization.replace('Bearer ', '')
TokenOf(authorization) == StrRemoveAll(authorization, Bearer)

\* `if not authorization`
HeaderMissing(header) == ~header.present \/ header.value = <<>>

\* a request for a protected route arrives with `header`; `call` holds the
\* route and its parameters.  `if not authorization`, then
\* redis.get(cache_key) and `if not user_id`
GateGet(r, header, call) ==
    /\ pc[r] = "idle"
    /\ LET key == CacheKey_access_token(TokenOf(header.value))
       IN IF HeaderMissing(header) \/ ~Truthy(RedisGet(cache, key))
          THEN Return(r, HTTPException(call.op, call.path, 401,
                          "Invalid or missing authorization token."))
          ELSE Goto(r, "gate_expire", [op |-> call.op, call |-> call,
                                       authorization |-> header,
                                       cache_key |-> key])
    /\ UNCHANGED <<db, cache, issued>>

\* the first position of the handler of a protected route
HandlerEntry(op) ==
    CASE op = "delete_phone_number" -> "delete_count"
      [] op = "create_phone_number" -> "create_phone_exists"
      [] op = "create_customer" -> "create_customer_city"
      [] op = "update_customer" -> "update_customer_city"
      [] op = "create_city" -> "create_city_country"
      [] op = "create_category" -> "create_category_rate"
      [] op = "update_category" -> "update_category_rate"
      [] op = "update_city" -> "update_city_count"
      [] op = "get_monthly_call_sum" -> "monthly_exists"
      [] op = "get_avg_call_charge_per_year" -> "avg_query"
      [] op = "get_customers_in_debt" -> "in_debt_query"
      [] op = "delete_city" -> "delete_city_count"
      [] op = "delete_category" -> "delete_category_count"
      [] op = "delete_country" -> "delete_country_count"
      [] op = "delete_rate" -> "delete_rate_count"
      [] op = "get_top_city" -> "top_city_query"
      [] op = "get_city_stats" -> "city_stats_query"
      [] op = "get_customers_with_all_cities" -> "all_cities_query"
      [] OTHER -> "idle"

\* redis.expire(cache_key, access_token_ttl); the handler runs next
GateExpire(r) ==
    /\ pc[r] = "gate_expire"
    /\ cache' = RedisExpire(cache, arg[r].cache_key, access_token_ttl)
    /\ Goto(r, HandlerEntry(arg[r].op), arg[r].call)
    /\ UNCHANGED <<db, issued>>

\* time passes on the Redis server
Tick ==
    /\ DOMAIN cache # {}
    /\ cache' = RedisTick(cache)
    /\ UNCHANGED <<db, issued, pc, arg, resp>>

(***************************************************************************)
(* The generic repository (FastCRUD) as the handlers call it.              *)
(***************************************************************************)
\* the rows of `table` whose id is `id`
RowsById(table, id) == {i \in DOMAIN table : i = id}

\* DELETE FROM table WHERE id = :id
DeleteById(table, id) == [i \in DOMAIN table \ {id} |-> table[i]]

(***************************************************************************)
(* DELETE /phone_numbers/{phone_id} (src/app/routers/phone_numbers.py).    *)
(* phone_repo.delete counts the matching rows, raises NoResultFound for    *)
(* none, then runs the DELETE and commits.                                 *)
(***************************************************************************)
DeletePhoneCall(phone_id) ==
    [op |-> "delete_phone_number", phone_id |-> phone_id,
     path |-> [phone_id |-> phone_id]]

DeletePhoneCount(r) ==
    /\ pc[r] = "delete_count"
    /\ IF RowsById(phone_numbers, arg[r].phone_id) = {}
       THEN Return(r, HTTPException(arg[r].op, arg[r].path, 404,
                                    "No such phone number."))
       ELSE Goto(r, "delete_exec", arg[r])
    /\ UNCHANGED <<db, cache, issued>>

DeletePhoneExec(r) ==
    /\ pc[r] = "delete_exec"
    /\ phone_numbers' = DeleteById(phone_numbers, arg[r].phone_id)
    /\ Return(r, Response(arg[r].op, arg[r].path, 204, <<>>))
    /\ UNCHANGED <<admins, catalog, customers, calls, call_id_seq,
                   cache, issued>>

(***************************************************************************)
(* Calls (src/app/routers/calls.py, src/app/orm/models.py).  These routes  *)
(* carry no dependency on check_auth_token.                                *)
(***************************************************************************)
\* an id one above the greatest id in the table
nextval_AboveRows(seq, table) ==
    IF DOMAIN table = {} THEN 1
    ELSE 1 + CHOOSE m \in DOMAIN table : \A i \in DOMAIN table : i <= m

\* the id column (primary key, autoincrement): the INSERT takes the next
\* value of the sequence of the table, whatever rows the table holds
nextval(seq, table) == seq + 1

IN_PROGRESS == "IN_PROGRESS"
FINISHED == "FINISHED"

\* datetime.now().year where the server runs
current_year == 2026

\* utcnow(): an instant is the year and the month of a timestamp, which is
\* what the queries extract; the clock reads the same at every INSERT
utcnow == [year |-> current_year, month |-> 1]

\* the status default set to the other member of the enum
CallDefaults_Finished ==
    [duration |-> 0, started_at |-> utcnow, finished_at |-> None,
     charge |-> 0, status |-> "FINISHED"]

\* the column defaults of Call, applied by the INSERT to what
\* CallCreateSchema does not carry
CallDefaults ==
    [duration |-> 0, started_at |-> utcnow, finished_at |-> None,
     charge |-> 0, status |-> IN_PROGRESS]

\* Call(**data.model_dump()) with the defaults filled in
NewCall(data) ==
    [from_customer_id |-> data.from_customer_id,
     to_customer_id |-> data.to_customer_id,
     duration |-> CallDefaults.duration,
     started_at |-> CallDefaults.started_at,
     finished_at |-> CallDefaults.finished_at,
     charge |-> CallDefaults.charge,
     status |-> CallDefaults.status]

\* CallReadSchema of a row
CallRead(id, row) ==
    [id |-> id, from_customer_id |-> row.from_customer_id,
     to_customer_id |-> row.to_customer_id, status |-> row.status,
     duration |-> row.duration, charge |-> row.charge]

CallData(from, to) == [from_customer_id |-> from, to_customer_id |-> to]

\* the self-call test left out
SameCustomer_Never(data) == FALSE

\* data.from_customer_id == data.to_customer_id
SameCustomer(data) == data.from_customer_id = data.to_customer_id

\* the count without the to_customer_id clause
ActiveCallCount_CallerOnly(data) ==
    LET both == {data.from_customer_id, data.to_customer_id}
    IN Cardinality({c \in DOMAIN calls :
           /\ calls[c].from_customer_id \in both
           /\ calls[c].status = "IN_PROGRESS"})

\* select count() from calls where (from_customer_id in (:f, :t) or
\* to_customer_id in (:f, :t)) and status = 'IN_PROGRESS'
ActiveCallCount(data) ==
    LET both == {data.from_customer_id, data.to_customer_id}
    IN Cardinality({c \in DOMAIN calls :
           /\ calls[c].from_customer_id \in both
              \/ calls[c].to_customer_id \in both
           /\ calls[c].status = IN_PROGRESS})

\* select count() from phone_numbers where customer_id = :customer_id
PhoneCount(customer_id) ==
    Cardinality({p \in DOMAIN phone_numbers :
                    phone_numbers[p].customer_id = customer_id})

\* POST /calls/start arrives: the self-call test and the active-call count
StartCall(r, data) ==
    /\ pc[r] = "idle"
    /\ IF SameCustomer(data)
       THEN Return(r, HTTPException("start_call", NoPath, 404,
                       "Cannot make a call with the same customer."))
       ELSE IF ActiveCallCount(data) > 0
       THEN Return(r, HTTPException("start_call", NoPath, 404,
                       "One of the customers is already in an active call."))
       ELSE /\ call_id_seq
                 + Cardinality({s \in Slots : arg[s].op = "start_call"})
                 < MaxCalls
            /\ Goto(r, "start_phone_from",
                    [op |-> "start_call", data |-> data])
    /\ UNCHANGED <<db, cache, issued>>

\* the phone-number count of from_customer
StartPhoneFrom(r) ==
    /\ pc[r] = "start_phone_from"
    /\ IF PhoneCount(arg[r].data.from_customer_id) = 0
       THEN Return(r, HTTPException("start_call", NoPath, 404,
                       "from_customer must have at least one phone number."))
       ELSE Goto(r, "start_phone_to", arg[r])
    /\ UNCHANGED <<db, cache, issued>>

\* the phone-number count of to_customer
StartPhoneTo(r) ==
    /\ pc[r] = "start_phone_to"
    /\ IF PhoneCount(arg[r].data.to_customer_id) = 0
       THEN Return(r, HTTPException("start_call", NoPath, 404,
                       "to_customer must have at least one phone number."))
       ELSE Goto(r, "start_create", arg[r])
    /\ UNCHANGED <<db, cache, issued>>

\* both customer ids of `data` satisfy the foreign keys of calls
CallForeignKeysHold(data) ==
    /\ data.from_customer_id \in DOMAIN customers
    /\ data.to_customer_id \in DOMAIN customers

\* call_repo.create: INSERT and commit.  The identity sequence advances
\* also when the INSERT is refused; an IntegrityError is not caught.
StartCreate(r) ==
    /\ pc[r] = "start_create"
    /\ call_id_seq' = nextval(call_id_seq, calls)
    /\ IF CallForeignKeysHold(arg[r].data)
       THEN /\ calls' = (call_id_seq' :> NewCall(arg[r].data)) @@ calls
            /\ Return(r, Response("start_call", NoPath, 200,
                          CallRead(call_id_seq', NewCall(arg[r].data))))
       ELSE /\ UNCHANGED calls
            /\ Return(r, HTTPException("start_call", NoPath, 500,
                                       "IntegrityError"))
    /\ UNCHANGED <<admins, catalog, customers, phone_numbers, cache, issued>>

\* the filter without status=IN_PROGRESS
FinishMatches_IdOnly(id, call_id) == id = call_id

\* the filter of call_repo.update(id=call_id, status=IN_PROGRESS)
FinishMatches(id, call_id) ==
    id = call_id /\ calls[id].status = IN_PROGRESS

\* the update carrying a charge as well
FinishValues_Charged == [status |-> FINISHED, charge |-> 1]

\* CallUpdateSchema(status=FINISHED).model_dump(exclude_unset=True)
FinishValues == [status |-> FINISHED]

FinishPath(call_id) == [call_id |-> call_id]

\* POST /calls/finish/{call_id} arrives: call_repo.update first counts the
\* rows matching the filter and raises NoResultFound for none
FinishCall(r, call_id) ==
    /\ pc[r] = "idle"
    /\ IF {c \in DOMAIN calls : FinishMatches(c, call_id)} = {}
       THEN Return(r, HTTPException("finish_call", FinishPath(call_id), 404,
                       "No such call or call is already finished."))
       ELSE Goto(r, "finish_update", [op |-> "finish_call",
                                      call_id |-> call_id])
    /\ UNCHANGED <<db, cache, issued>>

\* UPDATE calls SET status = :status WHERE id = :id AND status =
\* 'IN_PROGRESS' RETURNING ..., and commit.  When the row stopped matching
\* after the count, no row is returned: depending on the release of the
\* repository library this surfaces as NoResultFound (404) or as an empty
\* result that fails response validation (500).
FinishUpdate(r) ==
    /\ pc[r] = "finish_update"
    /\ LET hit == {c \in DOMAIN calls : FinishMatches(c, arg[r].call_id)}
       IN /\ calls' = [c \in DOMAIN calls |->
                         IF c \in hit
                         THEN [f \in DOMAIN calls[c] |->
                                  IF f \in DOMAIN FinishValues
                                  THEN FinishValues[f] ELSE calls[c][f]]
                         ELSE calls[c]]
          /\ IF hit # {}
             THEN Return(r, Response("finish_call",
                      FinishPath(arg[r].call_id), 200,
                      CallRead(arg[r].call_id, calls'[arg[r].call_id])))
             ELSE \/ Return(r, HTTPException("finish_call",
                         FinishPath(arg[r].call_id), 404,
                         "No such call or call is already finished."))
                  \/ Return(r, HTTPException("finish_call",
                         FinishPath(arg[r].call_id), 500,
                         "ResponseValidationError"))
    /\ UNCHANGED <<admins, catalog, customers, phone_numbers, call_id_seq,
                   cache, issued>>

(***************************************************************************)
(* Initial states.  The admins table is filled outside the API; the other  *)
(* rows are ones the API has created.                                      *)
(***************************************************************************)
InitAdmins ==
    (1 :> [username |-> <<"r", "o", "o", "t">>,
           password |-> generate_password_hash(<<"p">>)])
    @@ (2 :> [username |-> <<"b", "o", "b">>,
              password |-> generate_password_hash(<<"q">>)])

\* customers 1..3; customers 1 and 2 own one phone number each, customer 3
\* owns none
InitCustomers ==
    [c \in 1..3 |-> [fullname |-> <<"c", Digits[c]>>,
                     passport |-> <<"P", Digits[c]>>,
                     city_id |-> 1, category_id |-> 1]]

InitPhones ==
    [p \in 1..2 |-> [number |-> <<"+", Digits[p]>>, customer_id |-> p]]

\* rate, category, country and city 1 are those of the customers; rate,
\* category, country and city 2 are referenced by no customer
InitRates == [i \in 1..2 |-> [cost |-> i]]

InitCategories ==
    [i \in 1..2 |-> [name |-> <<"g", Digits[i]>>, discount_mtp |-> 1,
                     rate_id |-> i]]

InitCountries == [i \in 1..2 |-> [name |-> <<"n", Digits[i]>>, minute_cost |-> i]]

InitCities ==
    [i \in 1..2 |-> [name |-> <<"t", Digits[i]>>, zip_code |-> <<"z", Digits[i]>>,
                     country_id |-> i]]

\* one payment, of customer 1
InitPayments == (1 :> [amount |-> 1, customer_id |-> 1, status |-> "PENDING"])

\* the identity sequences stand at the highest id handed out
InitIdSeq ==
    [t \in {"customers", "phone_numbers", "cities", "categories"} |->
        IF t = "customers" THEN 3 ELSE 2]

InitTables ==
    /\ admins = InitAdmins
    /\ rates = InitRates
    /\ categories = InitCategories
    /\ countries = InitCountries
    /\ cities = InitCities
    /\ payments = InitPayments
    /\ id_seq = InitIdSeq
    /\ customers = InitCustomers
    /\ phone_numbers = InitPhones
    /\ calls = <<>>
    /\ call_id_seq = 0

InitSlots ==
    /\ pc = [r \in Slots |-> "idle"]
    /\ arg = [r \in Slots |-> NoArg]
    /\ resp = NoResp

(***************************************************************************)
(* SpecAuth: the token life cycle.  Logins, requests for a protected       *)
(* route and the Redis clock.                                              *)
(***************************************************************************)
InitAuth ==
    /\ InitTables
    /\ InitSlots
    /\ cache = EmptyStore
    /\ issued = {}

\* the protected requests of SpecAuth: the deletion of phone number 1, a
\* row, and of phone number 4, which is none
ProtectedCalls == {DeletePhoneCall(i) : i \in {1, 4}}

NextAuth ==
    \/ \E r \in Slots, u \in Usernames, p \in Passwords : Login(r, u, p)
    \/ \E r \in Slots : LoginSet(r)
    \/ \E r \in Slots, h \in Headers, c \in ProtectedCalls : GateGet(r, h, c)
    \/ \E r \in Slots : GateExpire(r)
    \/ \E r \in Slots : DeletePhoneCount(r)
    \/ \E r \in Slots : DeletePhoneExec(r)
    \/ Tick

SpecAuth == InitAuth /\ [][NextAuth]_vars

(***************************************************************************)
(* SpecLogin: logins and the Redis clock alone.                            *)
(***************************************************************************)
NextLogin ==
    \/ \E r \in Slots, u \in Usernames, p \in Passwords : Login(r, u, p)
    \/ \E r \in Slots : LoginSet(r)
    \/ Tick

SpecLogin == InitAuth /\ [][NextLogin]_vars

(***************************************************************************)
(* SpecCalls: the call life cycle.  A request names the customers 1 and 2, *)
(* who own a phone number, or customer 3, who owns none; start_call looks  *)
(* a customer up by the phone-number count alone.                          *)
(***************************************************************************)
CustomerIds == 1..3
CallIds == 1..(MaxCalls + 1)

InitCalls ==
    /\ InitTables
    /\ InitSlots
    /\ cache = EmptyStore
    /\ issued = {}

NextCalls ==
    \/ \E r \in Slots, f \in CustomerIds, t \in CustomerIds :
           StartCall(r, CallData(f, t))
    \/ \E r \in Slots : StartPhoneFrom(r)
    \/ \E r \in Slots : StartPhoneTo(r)
    \/ \E r \in Slots : StartCreate(r)
    \/ \E r \in Slots, c \in CallIds : FinishCall(r, c)
    \/ \E r \in Slots : FinishUpdate(r)

SpecCalls == InitCalls /\ [][NextCalls]_vars

(***************************************************************************)
(* SpecCallsPhones: the call life cycle together with the deletion of     *)
(* phone numbers by an administrator whose token is in the store.  The    *)
(* Redis clock does not advance in this specification.                     *)
(***************************************************************************)
AdminToken == <<"u", "1">>

InitCallsPhones ==
    /\ InitTables
    /\ InitSlots
    /\ cache = RedisSet(EmptyStore, CacheKey_access_token(AdminToken),
                        RedisStr(1), access_token_ttl)
    /\ issued = {AdminToken}

NextCallsPhones ==
    \/ \E r \in Slots, f \in 1..2, t \in 1..2 : StartCall(r, CallData(f, t))
    \/ \E r \in Slots : StartPhoneFrom(r)
    \/ \E r \in Slots : StartPhoneTo(r)
    \/ \E r \in Slots : StartCreate(r)
    \/ \E r \in Slots, c \in CallIds : FinishCall(r, c)
    \/ \E r \in Slots : FinishUpdate(r)
    \/ \E r \in Slots, h \in {NoHeader, Header(Bearer \o AdminToken)},
          i \in {1, 2, 4} : GateGet(r, h, DeletePhoneCall(i))
    \/ \E r \in Slots : GateExpire(r)
    \/ \E r \in Slots : DeletePhoneCount(r)
    \/ \E r \in Slots : DeletePhoneExec(r)

SpecCallsPhones == InitCallsPhones /\ [][NextCallsPhones]_vars

\* a pk_exists that finds every key
pk_exists_Always(table, primary_key) == TRUE

(***************************************************************************)
(* pk_exists (src/app/utils.py): session.get(model, primary_key) finds a   *)
(* row; the caller answers 404 'Invalid information supplied.' otherwise.  *)
(***************************************************************************)
pk_exists(table, primary_key) == primary_key \in DOMAIN table

InvalidInformation(r) ==
    Return(r, HTTPException(arg[r].op, arg[r].path, 404,
                            "Invalid information supplied."))

\* an administrator's request: without the header, or with the token that
\* is in the store
AdminHeaders == {NoHeader, Header(Bearer \o AdminToken)}

\* no other request is being served
OneAtATime == \A q \in Slots : pc[q] = "idle"

(***************************************************************************)
(* POST /phone_numbers (src/app/routers/phone_numbers.py).                 *)
(***************************************************************************)
PhoneData(number, customer_id) == [number |-> number, customer_id |-> customer_id]

CreatePhoneCall(data) ==
    [op |-> "create_phone_number", data |-> data, path |-> NoPath]

\* PhoneReadSchema of a row
PhoneRead(id, row) ==
    [id |-> id, number |-> row.number, customer_id |-> row.customer_id]

\* the limit test one number early
LimitReached_Early(ph_numbers_count) ==
    ph_numbers_count >= max_phone_numbers - 1

\* the limit test with > in place of >=
LimitReached_Above(ph_numbers_count) == ph_numbers_count > max_phone_numbers

\* ph_numbers_count >= app_config.misc.max_phone_numbers
LimitReached(ph_numbers_count) == ph_numbers_count >= max_phone_numbers

\* the unique constraint on number left out
NumberInUse_Never(number) == FALSE

\* the unique constraint phone_numbers_number_key refuses `number`
NumberInUse(number) ==
    \E p \in DOMAIN phone_numbers : phone_numbers[p].number = number

\* await pk_exists(session, Customer, data.customer_id)
CreatePhoneExists(r) ==
    /\ pc[r] = "create_phone_exists"
    /\ IF pk_exists(customers, arg[r].data.customer_id)
       THEN Goto(r, "create_phone_count", arg[r])
       ELSE InvalidInformation(r)
    /\ UNCHANGED <<db, cache, issued>>

\* the count of the customer's numbers and the limit test.  The model
\* serves a request that goes on to the INSERT only while the identity
\* sequence is below its bound.
CreatePhoneCount(r) ==
    /\ pc[r] = "create_phone_count"
    /\ IF LimitReached(PhoneCount(arg[r].data.customer_id))
       THEN Return(r, HTTPException(arg[r].op, arg[r].path, 403,
                       "Customer has reached the limit of phone numbers."))
       ELSE /\ id_seq["phone_numbers"]
                 + Cardinality({s \in Slots : pc[s] = "create_phone_insert"})
                 < InitIdSeq["phone_numbers"] + MaxPhones
            /\ Goto(r, "create_phone_insert", arg[r])
    /\ UNCHANGED <<db, cache, issued>>

\* phone_repo.create: INSERT and commit.  The identity sequence advances
\* also when the INSERT is refused.  The unique index is checked when the
\* row is inserted, the foreign key at the end of the statement; an
\* IntegrityError that does not name phone_numbers_number_key is re-raised.
CreatePhoneInsert(r) ==
    /\ pc[r] = "create_phone_insert"
    /\ id_seq' = [id_seq EXCEPT !["phone_numbers"] = nextval(@, phone_numbers)]
    /\ IF NumberInUse(arg[r].data.number)
       THEN /\ UNCHANGED phone_numbers
            /\ Return(r, HTTPException(arg[r].op, arg[r].path, 409,
                            "Phone number already exists."))
       ELSE IF ~pk_exists(customers, arg[r].data.customer_id)
       THEN /\ UNCHANGED phone_numbers
            /\ Return(r, HTTPException(arg[r].op, arg[r].path, 500,
                            "Internal Server Error"))
       ELSE /\ phone_numbers' =
                  (id_seq'["phone_numbers"] :> arg[r].data) @@ phone_numbers
            /\ Return(r, Response(arg[r].op, arg[r].path, 200,
                            PhoneRead(id_seq'["phone_numbers"], arg[r].data)))
    /\ UNCHANGED <<admins, rates, categories, countries, cities, payments,
                   customers, calls, call_id_seq, cache, issued>>

(***************************************************************************)
(* SpecPhonesSeq: phone numbers are created and deleted by requests that   *)
(* are served one at a time.                                               *)
(***************************************************************************)
\* the numbers a request may carry: one that is registered at the start
\* and some that are not
PhoneNumbers == {<<"+", Digits[i]>> : i \in {1, 3, 4}} \cup {<<"+", "5">>}

NextPhonesSeq ==
    \/ /\ OneAtATime
       /\ \E r \in Slots, h \in AdminHeaders, n \in PhoneNumbers,
             c \in {1, 4} :
                GateGet(r, h, CreatePhoneCall(PhoneData(n, c)))
    \/ /\ OneAtATime
       /\ \E r \in Slots, h \in AdminHeaders, i \in {1, 3} :
                GateGet(r, h, DeletePhoneCall(i))
    \/ \E r \in Slots : GateExpire(r)
    \/ \E r \in Slots : CreatePhoneExists(r)
    \/ \E r \in Slots : CreatePhoneCount(r)
    \/ \E r \in Slots : CreatePhoneInsert(r)
    \/ \E r \in Slots : DeletePhoneCount(r)
    \/ \E r \in Slots : DeletePhoneExec(r)

SpecPhonesSeq == InitCallsPhones /\ [][NextPhonesSeq]_vars

(***************************************************************************)
(* POST /customers and PATCH /customers/{customer_id}                      *)
(* (src/app/routers/customers.py).                                         *)
(***************************************************************************)
CustomerData(passport, city_id, category_id) ==
    [fullname |-> <<"n">>, passport |-> passport, city_id |-> city_id,
     category_id |-> category_id]

CreateCustomerCall(data) ==
    [op |-> "create_customer", data |-> data, path |-> NoPath]

\* CustomerReadSchema of a row: id, fullname, city_id, category_id
CustomerRead(id, row) ==
    [id |-> id, fullname |-> row.fullname, city_id |-> row.city_id,
     category_id |-> row.category_id]

\* the unique constraint on passport left out
PassportInUse_Never(passport, except) == FALSE

\* the unique constraint customers_passport_key refuses `passport` for a row
\* other than those of `except`
PassportInUse(passport, except) ==
    \E c \in DOMAIN customers \ except : customers[c].passport = passport

\* a customers table without foreign keys
CustomerForeignKeysHold_Unchecked(row) == TRUE

\* the foreign keys of a customers row hold
CustomerForeignKeysHold(row) ==
    /\ row.city_id \in DOMAIN cities
    /\ row.category_id \in DOMAIN categories

\* the response to an exception no handler catches
InternalServerError(r) ==
    Return(r, HTTPException(arg[r].op, arg[r].path, 500,
                            "Internal Server Error"))

\* await pk_exists(session, City, data.city_id)
CreateCustomerCity(r) ==
    /\ pc[r] = "create_customer_city"
    /\ IF pk_exists(cities, arg[r].data.city_id)
       THEN Goto(r, "create_customer_category", arg[r])
       ELSE InvalidInformation(r)
    /\ UNCHANGED <<db, cache, issued>>

\* await pk_exists(session, Category, data.category_id).  The model serves a
\* request that goes on to the INSERT only while the identity sequence is
\* below its bound.
CreateCustomerCategory(r) ==
    /\ pc[r] = "create_customer_category"
    /\ IF pk_exists(categories, arg[r].data.category_id)
       THEN /\ id_seq["customers"]
                 + Cardinality({s \in Slots : pc[s] = "create_customer_insert"})
                 < InitIdSeq["customers"] + MaxInserts
            /\ Goto(r, "create_customer_insert", arg[r])
       ELSE InvalidInformation(r)
    /\ UNCHANGED <<db, cache, issued>>

\* customer_repo.create: INSERT and commit; an IntegrityError that names
\* customers_passport_key becomes 409, any other is re-raised
CreateCustomerInsert(r) ==
    /\ pc[r] = "create_customer_insert"
    /\ id_seq' = [id_seq EXCEPT !["customers"] = nextval(@, customers)]
    /\ IF PassportInUse(arg[r].data.passport, {})
       THEN /\ UNCHANGED customers
            /\ Return(r, HTTPException(arg[r].op, arg[r].path, 409,
                            "Customer with such passport already exists."))
       ELSE IF ~CustomerForeignKeysHold(arg[r].data)
       THEN /\ UNCHANGED customers
            /\ InternalServerError(r)
       ELSE /\ customers' = (id_seq'["customers"] :> arg[r].data) @@ customers
            /\ Return(r, Response(arg[r].op, arg[r].path, 200,
                            CustomerRead(id_seq'["customers"], arg[r].data)))
    /\ UNCHANGED <<admins, rates, categories, countries, cities, payments,
                   phone_numbers, calls, call_id_seq, cache, issued>>

\* PATCH: `data` is a record of the fields the request supplies, which is
\* what model_dump(exclude_unset=True) hands to the UPDATE
UpdateCustomerCall(customer_id, data) ==
    [op |-> "update_customer", customer_id |-> customer_id, data |-> data,
     path |-> [customer_id |-> customer_id]]

\* the row with the supplied fields written over
Patched(row, data) ==
    [f \in DOMAIN row |-> IF f \in DOMAIN data THEN data[f] ELSE row[f]]

\* the await update_customer is at: the pk_exists calls are made for the
\* fields that are supplied only
UpdateCustomerAt(r) ==
    IF pc[r] = "update_customer_city" /\ "city_id" \notin DOMAIN arg[r].data
    THEN IF "category_id" \in DOMAIN arg[r].data
         THEN "update_customer_category"
         ELSE "update_customer_count"
    ELSE pc[r]

\* await pk_exists(session, City, data.city_id)
UpdateCustomerCity(r) ==
    /\ pc[r] = "update_customer_city"
    /\ UpdateCustomerAt(r) = "update_customer_city"
    /\ IF pk_exists(cities, arg[r].data.city_id)
       THEN Goto(r, IF "category_id" \in DOMAIN arg[r].data
                    THEN "update_customer_category"
                    ELSE "update_customer_count", arg[r])
       ELSE InvalidInformation(r)
    /\ UNCHANGED <<db, cache, issued>>

\* await pk_exists(session, Category, data.category_id)
UpdateCustomerCategory(r) ==
    /\ pc[r] \in {"update_customer_city", "update_customer_category"}
    /\ UpdateCustomerAt(r) = "update_customer_category"
    /\ IF pk_exists(categories, arg[r].data.category_id)
       THEN Goto(r, "update_customer_count", arg[r])
       ELSE InvalidInformation(r)
    /\ UNCHANGED <<db, cache, issued>>

\* customer_repo.update: the count of the rows with id = customer_id
UpdateCustomerCount(r) ==
    /\ pc[r] \in {"update_customer_city", "update_customer_category",
                  "update_customer_count"}
    /\ UpdateCustomerAt(r) = "update_customer_count"
    /\ IF RowsById(customers, arg[r].customer_id) = {}
       THEN Return(r, HTTPException(arg[r].op, arg[r].path, 404,
                                    "No such customer."))
       ELSE Goto(r, "update_customer_exec", arg[r])
    /\ UNCHANGED <<db, cache, issued>>

\* customer_repo.update: UPDATE customers SET ... WHERE id = :id, and
\* commit.  An IntegrityError is not caught.  The handler returns nothing,
\* so the response is 200 with a null body.  When the row is gone after the
\* count, the repository raises NoResultFound or returns nothing, depending
\* on its release.
UpdateCustomerExec(r) ==
    /\ pc[r] = "update_customer_exec"
    /\ LET id == arg[r].customer_id
       IN IF id \notin DOMAIN customers
          THEN /\ UNCHANGED customers
               /\ \/ Return(r, HTTPException(arg[r].op, arg[r].path, 404,
                                             "No such customer."))
                  \/ Return(r, Response(arg[r].op, arg[r].path, 200, None))
          ELSE IF \/ /\ "passport" \in DOMAIN arg[r].data
                     /\ PassportInUse(arg[r].data.passport, {id})
                  \/ ~CustomerForeignKeysHold(Patched(customers[id], arg[r].data))
          THEN /\ UNCHANGED customers
               /\ InternalServerError(r)
          ELSE /\ customers' = [customers EXCEPT
                                   ![id] = Patched(customers[id], arg[r].data)]
               /\ Return(r, Response(arg[r].op, arg[r].path, 200, None))
    /\ UNCHANGED <<admins, catalog, phone_numbers, calls, call_id_seq,
                   cache, issued>>

(***************************************************************************)
(* SpecUnique: customers and phone numbers are created, changed and        *)
(* deleted by concurrent requests that carry values in use and values not  *)
(* in use.                                                                 *)
(***************************************************************************)
AdminHeader == Header(Bearer \o AdminToken)

\* a passport no customer holds and a number that is not registered at the
\* start
FreshPassport == <<"P", "8">>
FreshNumber == <<"+", "3">>

\* the requests for `op` that have arrived and not been answered
InFlight(op) == Cardinality({s \in Slots : arg[s].op = op})

NextUnique ==
    \/ \E r \in Slots :
          GateGet(r, AdminHeader,
                  CreateCustomerCall(CustomerData(FreshPassport, 1, 1)))
    \/ \E r \in Slots :
          GateGet(r, AdminHeader,
                  UpdateCustomerCall(2, [passport |-> FreshPassport]))
    \/ \E r \in Slots :
          /\ id_seq["phone_numbers"] + InFlight("create_phone_number")
                < InitIdSeq["phone_numbers"] + MaxInserts
          /\ GateGet(r, AdminHeader, CreatePhoneCall(PhoneData(FreshNumber, 2)))
    \/ \E r \in Slots : GateGet(r, AdminHeader, DeletePhoneCall(3))
    \/ \E r \in Slots : GateExpire(r)
    \/ \E r \in Slots : CreateCustomerCity(r)
    \/ \E r \in Slots : CreateCustomerCategory(r)
    \/ \E r \in Slots : CreateCustomerInsert(r)
    \/ \E r \in Slots : UpdateCustomerCount(r)
    \/ \E r \in Slots : UpdateCustomerExec(r)
    \/ \E r \in Slots : CreatePhoneExists(r)
    \/ \E r \in Slots : CreatePhoneCount(r)
    \/ \E r \in Slots : CreatePhoneInsert(r)
    \/ \E r \in Slots : DeletePhoneCount(r)
    \/ \E r \in Slots : DeletePhoneExec(r)

SpecUnique == InitCallsPhones /\ [][NextUnique]_vars

(***************************************************************************)
(* Cities (src/app/routers/cities.py) and categories                       *)
(* (src/app/routers/categories.py): creation behind pk_exists, and the     *)
(* repository's delete, which counts the matching rows, raises             *)
(* NoResultFound for none, then runs one DELETE statement and commits.     *)
(* The tables carry the foreign keys of src/app/orm/models.py, none with   *)
(* ON DELETE: the database refuses the DELETE of a row that is referenced, *)
(* and the relationship cascades of the ORM are not part of a DELETE       *)
(* statement.                                                              *)
(***************************************************************************)
CityData(country_id) ==
    [name |-> <<"t">>, zip_code |-> <<"z">>, country_id |-> country_id]

CreateCityCall(data) == [op |-> "create_city", data |-> data, path |-> NoPath]

\* CityReadSchema of a row
CityRead(id, row) ==
    [id |-> id, name |-> row.name, zip_code |-> row.zip_code,
     country_id |-> row.country_id]

\* await pk_exists(session, Country, data.country_id).  The model serves a
\* request that goes on to the INSERT only while the identity sequence is
\* below its bound.
CreateCityCountry(r) ==
    /\ pc[r] = "create_city_country"
    /\ IF pk_exists(countries, arg[r].data.country_id)
       THEN /\ id_seq["cities"]
                 + Cardinality({s \in Slots : pc[s] = "create_city_insert"})
                 < InitIdSeq["cities"] + MaxInserts
            /\ Goto(r, "create_city_insert", arg[r])
       ELSE InvalidInformation(r)
    /\ UNCHANGED <<db, cache, issued>>

\* city_repo.create: INSERT and commit; an IntegrityError is not caught
CreateCityInsert(r) ==
    /\ pc[r] = "create_city_insert"
    /\ id_seq' = [id_seq EXCEPT !["cities"] = nextval(@, cities)]
    /\ IF arg[r].data.country_id \in DOMAIN countries
       THEN /\ cities' = (id_seq'["cities"] :> arg[r].data) @@ cities
            /\ Return(r, Response(arg[r].op, arg[r].path, 200,
                            CityRead(id_seq'["cities"], arg[r].data)))
       ELSE /\ UNCHANGED cities
            /\ InternalServerError(r)
    /\ UNCHANGED <<admins, rates, categories, countries, payments,
                   customers, phone_numbers, calls, call_id_seq, cache, issued>>

DeleteCityCall(city_id) ==
    [op |-> "delete_city", city_id |-> city_id, path |-> [city_id |-> city_id]]

\* the customers whose city_id is `city_id`
CustomersOfCity(city_id) ==
    {c \in DOMAIN customers : customers[c].city_id = city_id}

\* city_repo.delete: the count of the rows with id = city_id
DeleteCityCount(r) ==
    /\ pc[r] = "delete_city_count"
    /\ IF RowsById(cities, arg[r].city_id) = {}
       THEN Return(r, HTTPException(arg[r].op, arg[r].path, 404,
                                    "No such city."))
       ELSE Goto(r, "delete_city_exec", arg[r])
    /\ UNCHANGED <<db, cache, issued>>

\* city_repo.delete: DELETE FROM cities WHERE id = :id, and commit.  The
\* foreign key of customers.city_id refuses the statement while a customer
\* of the city exists; the IntegrityError is not caught.
DeleteCityExec(r) ==
    /\ pc[r] = "delete_city_exec"
    /\ IF CustomersOfCity(arg[r].city_id) # {}
          /\ arg[r].city_id \in DOMAIN cities
       THEN /\ UNCHANGED cities
            /\ InternalServerError(r)
       ELSE /\ cities' = DeleteById(cities, arg[r].city_id)
            /\ Return(r, Response(arg[r].op, arg[r].path, 204, <<>>))
    /\ UNCHANGED <<admins, rates, categories, countries, payments, id_seq,
                   customers, phone_numbers, calls, call_id_seq, cache, issued>>

CategoryData(rate_id) ==
    [name |-> <<"g">>, discount_mtp |-> 1, rate_id |-> rate_id]

CreateCategoryCall(data) ==
    [op |-> "create_category", data |-> data, path |-> NoPath]

\* CategoryReadSchema of a row
CategoryRead(id, row) ==
    [id |-> id, name |-> row.name, discount_mtp |-> row.discount_mtp,
     rate_id |-> row.rate_id]

\* await pk_exists(session, Rate, data.rate_id)
CreateCategoryRate(r) ==
    /\ pc[r] = "create_category_rate"
    /\ IF pk_exists(rates, arg[r].data.rate_id)
       THEN /\ id_seq["categories"]
                 + Cardinality({s \in Slots : pc[s] = "create_category_insert"})
                 < InitIdSeq["categories"] + MaxInserts
            /\ Goto(r, "create_category_insert", arg[r])
       ELSE InvalidInformation(r)
    /\ UNCHANGED <<db, cache, issued>>

\* category_repo.create: INSERT and commit; an IntegrityError is not caught
CreateCategoryInsert(r) ==
    /\ pc[r] = "create_category_insert"
    /\ id_seq' = [id_seq EXCEPT !["categories"] = nextval(@, categories)]
    /\ IF arg[r].data.rate_id \in DOMAIN rates
       THEN /\ categories' = (id_seq'["categories"] :> arg[r].data) @@ categories
            /\ Return(r, Response(arg[r].op, arg[r].path, 200,
                            CategoryRead(id_seq'["categories"], arg[r].data)))
       ELSE /\ UNCHANGED categories
            /\ InternalServerError(r)
    /\ UNCHANGED <<admins, rates, countries, cities, payments,
                   customers, phone_numbers, calls, call_id_seq, cache, issued>>

UpdateCategoryCall(category_id, data) ==
    [op |-> "update_category", category_id |-> category_id, data |-> data,
     path |-> [category_id |-> category_id]]

\* the await update_category is at: pk_exists is called only when rate_id
\* is supplied
UpdateCategoryAt(r) ==
    IF pc[r] = "update_category_rate" /\ "rate_id" \notin DOMAIN arg[r].data
    THEN "update_category_count"
    ELSE pc[r]

\* await pk_exists(session, Rate, data.rate_id)
UpdateCategoryRate(r) ==
    /\ pc[r] = "update_category_rate"
    /\ UpdateCategoryAt(r) = "update_category_rate"
    /\ IF pk_exists(rates, arg[r].data.rate_id)
       THEN Goto(r, "update_category_count", arg[r])
       ELSE InvalidInformation(r)
    /\ UNCHANGED <<db, cache, issued>>

\* category_repo.update: the count of the rows with id = category_id
UpdateCategoryCount(r) ==
    /\ pc[r] \in {"update_category_rate", "update_category_count"}
    /\ UpdateCategoryAt(r) = "update_category_count"
    /\ IF RowsById(categories, arg[r].category_id) = {}
       THEN Return(r, HTTPException(arg[r].op, arg[r].path, 404,
                                    "No such category."))
       ELSE Goto(r, "update_category_exec", arg[r])
    /\ UNCHANGED <<db, cache, issued>>

\* category_repo.update: UPDATE categories SET ... WHERE id = :id, and
\* commit.  An IntegrityError is not caught.  When the row is gone after
\* the count, the repository raises NoResultFound or returns nothing,
\* depending on its release.
UpdateCategoryExec(r) ==
    /\ pc[r] = "update_category_exec"
    /\ LET id == arg[r].category_id
       IN IF id \notin DOMAIN categories
          THEN /\ UNCHANGED categories
               /\ \/ Return(r, HTTPException(arg[r].op, arg[r].path, 404,
                                             "No such category."))
                  \/ Return(r, Response(arg[r].op, arg[r].path, 200, None))
          ELSE IF Patched(categories[id], arg[r].data).rate_id
                     \notin DOMAIN rates
          THEN /\ UNCHANGED categories
               /\ InternalServerError(r)
          ELSE /\ categories' = [categories EXCEPT
                                    ![id] = Patched(categories[id], arg[r].data)]
               /\ Return(r, Response(arg[r].op, arg[r].path, 200, None))
    /\ UNCHANGED <<admins, rates, countries, cities, payments, id_seq,
                   customers, phone_numbers, calls, call_id_seq, cache, issued>>

DeleteCategoryCall(category_id) ==
    [op |-> "delete_category", category_id |-> category_id,
     path |-> [category_id |-> category_id]]

\* the customers whose category_id is `category_id`
CustomersOfCategory(category_id) ==
    {c \in DOMAIN customers : customers[c].category_id = category_id}

\* category_repo.delete: the count of the rows with id = category_id
DeleteCategoryCount(r) ==
    /\ pc[r] = "delete_category_count"
    /\ IF RowsById(categories, arg[r].category_id) = {}
       THEN Return(r, HTTPException(arg[r].op, arg[r].path, 404,
                                    "No such category."))
       ELSE Goto(r, "delete_category_exec", arg[r])
    /\ UNCHANGED <<db, cache, issued>>

\* category_repo.delete: DELETE FROM categories WHERE id = :id, and commit
DeleteCategoryExec(r) ==
    /\ pc[r] = "delete_category_exec"
    /\ IF CustomersOfCategory(arg[r].category_id) # {}
          /\ arg[r].category_id \in DOMAIN categories
       THEN /\ UNCHANGED categories
            /\ InternalServerError(r)
       ELSE /\ categories' = DeleteById(categories, arg[r].category_id)
            /\ Return(r, Response(arg[r].op, arg[r].path, 204, <<>>))
    /\ UNCHANGED <<admins, rates, countries, cities, payments, id_seq,
                   customers, phone_numbers, calls, call_id_seq, cache, issued>>

(***************************************************************************)
(* Countries (src/app/routers/countries.py) and rates                      *)
(* (src/app/routers/rates.py): the delete endpoint of crud_router calls    *)
(* the same repository delete.  What the endpoint answers for an id        *)
(* without a row depends on the release of the library: 404, or the        *)
(* NoResultFound unhandled.                                                *)
(***************************************************************************)
DeleteCountryCall(id) ==
    [op |-> "delete_country", id |-> id, path |-> [id |-> id]]

DeleteRateCall(id) == [op |-> "delete_rate", id |-> id, path |-> [id |-> id]]

\* the answer of a crud_router endpoint whose repository call raised
\* NoResultFound
CrudNotFound(r) ==
    \/ Return(r, HTTPException(arg[r].op, arg[r].path, 404, "Item not found"))
    \/ InternalServerError(r)

CitiesOfCountry(id) == {c \in DOMAIN cities : cities[c].country_id = id}

CategoriesOfRate(id) == {c \in DOMAIN categories : categories[c].rate_id = id}

DeleteCountryCount(r) ==
    /\ pc[r] = "delete_country_count"
    /\ IF RowsById(countries, arg[r].id) = {}
       THEN CrudNotFound(r)
       ELSE Goto(r, "delete_country_exec", arg[r])
    /\ UNCHANGED <<db, cache, issued>>

\* DELETE FROM countries WHERE id = :id, and commit
DeleteCountryExec(r) ==
    /\ pc[r] = "delete_country_exec"
    /\ IF CitiesOfCountry(arg[r].id) # {} /\ arg[r].id \in DOMAIN countries
       THEN /\ UNCHANGED countries
            /\ InternalServerError(r)
       ELSE /\ countries' = DeleteById(countries, arg[r].id)
            /\ Return(r, Response(arg[r].op, arg[r].path, 200,
                                  [message |-> "Item deleted successfully"]))
    /\ UNCHANGED <<admins, rates, categories, cities, payments, id_seq,
                   customers, phone_numbers, calls, call_id_seq, cache, issued>>

DeleteRateCount(r) ==
    /\ pc[r] = "delete_rate_count"
    /\ IF RowsById(rates, arg[r].id) = {}
       THEN CrudNotFound(r)
       ELSE Goto(r, "delete_rate_exec", arg[r])
    /\ UNCHANGED <<db, cache, issued>>

\* DELETE FROM rates WHERE id = :id, and commit
DeleteRateExec(r) ==
    /\ pc[r] = "delete_rate_exec"
    /\ IF CategoriesOfRate(arg[r].id) # {} /\ arg[r].id \in DOMAIN rates
       THEN /\ UNCHANGED rates
            /\ InternalServerError(r)
       ELSE /\ rates' = DeleteById(rates, arg[r].id)
            /\ Return(r, Response(arg[r].op, arg[r].path, 200,
                                  [message |-> "Item deleted successfully"]))
    /\ UNCHANGED <<admins, categories, countries, cities, payments, id_seq,
                   customers, phone_numbers, calls, call_id_seq, cache, issued>>

(***************************************************************************)
(* The creating and deleting routes of the catalogue, their requests       *)
(* served one at a time.  Id 9 is in no table.                             *)
(***************************************************************************)
NextCatalogSeq ==
    \/ /\ OneAtATime
       /\ \E r \in Slots, h \in AdminHeaders, i \in {2, 9} :
             \/ GateGet(r, h, CreateCityCall(CityData(i)))
             \/ GateGet(r, h, CreateCategoryCall(CategoryData(i)))
             \/ GateGet(r, h, CreatePhoneCall(PhoneData(FreshNumber, i)))
             \/ \E j \in {2, 9} :
                   GateGet(r, h, CreateCustomerCall(
                                     CustomerData(FreshPassport, i, j)))
    \/ /\ OneAtATime
       /\ \E r \in Slots, h \in AdminHeaders, i \in {1, 2} :
             \/ GateGet(r, h, DeleteCityCall(i))
             \/ GateGet(r, h, DeleteCountryCall(i))
    \/ \E r \in Slots : GateExpire(r)
    \/ \E r \in Slots : CreateCityCountry(r)
    \/ \E r \in Slots : CreateCityInsert(r)
    \/ \E r \in Slots : CreateCategoryRate(r)
    \/ \E r \in Slots : CreateCategoryInsert(r)
    \/ \E r \in Slots : CreatePhoneExists(r)
    \/ \E r \in Slots : CreatePhoneCount(r)
    \/ \E r \in Slots : CreatePhoneInsert(r)
    \/ \E r \in Slots : CreateCustomerCity(r)
    \/ \E r \in Slots : CreateCustomerCategory(r)
    \/ \E r \in Slots : CreateCustomerInsert(r)
    \/ \E r \in Slots : DeleteCityCount(r)
    \/ \E r \in Slots : DeleteCityExec(r)
    \/ \E r \in Slots : DeleteCountryCount(r)
    \/ \E r \in Slots : DeleteCountryExec(r)

SpecCatalogSeq == InitCallsPhones /\ [][NextCatalogSeq]_vars

(***************************************************************************)
(* The routes that write a foreign key or delete a referenced row, their   *)
(* requests interleaved.  Country 2, city 2, rate 2 and category 2 are     *)
(* what the requests refer to and what they delete.  A request arrives     *)
(* while it can still change a table and no request of its route is in     *)
(* flight: a delete while its row exists, the update while category 1 has  *)
(* another rate, create_customer while its passport is free; a create     *)
(* arrives while the INSERTs run and pending are below the bound.  The     *)
(* slots being alike, a request takes the first idle one.                  *)
(***************************************************************************)
\* the INSERTs run so far, and the create requests in flight
InsertsRun ==
    (id_seq["cities"] - InitIdSeq["cities"])
       + (id_seq["customers"] - InitIdSeq["customers"])
       + InFlight("create_city") + InFlight("create_customer")

\* r is the first idle slot
FirstIdle(r) == pc[r] = "idle" /\ \A s \in Slots : s < r => pc[s] # "idle"

NextRefs ==
    \/ /\ InsertsRun < MaxInserts
       /\ InFlight("create_city") = 0
       /\ \E r \in Slots :
             FirstIdle(r) /\ GateGet(r, AdminHeader, CreateCityCall(CityData(2)))
    \/ /\ InsertsRun < MaxInserts
       /\ InFlight("create_customer") = 0
       /\ ~PassportInUse(FreshPassport, {})
       /\ \E r \in Slots :
             /\ FirstIdle(r)
             /\ GateGet(r, AdminHeader, CreateCustomerCall(
                                     CustomerData(FreshPassport, 2, 2)))
    \/ /\ categories[1].rate_id # 2
       /\ InFlight("update_category") = 0
       /\ \E r \in Slots :
             /\ FirstIdle(r)
             /\ GateGet(r, AdminHeader, UpdateCategoryCall(1, [rate_id |-> 2]))
    \/ /\ 2 \in DOMAIN cities
       /\ InFlight("delete_city") = 0
       /\ \E r \in Slots :
             FirstIdle(r) /\ GateGet(r, AdminHeader, DeleteCityCall(2))
    \/ /\ 2 \in DOMAIN categories
       /\ InFlight("delete_category") = 0
       /\ \E r \in Slots :
             FirstIdle(r) /\ GateGet(r, AdminHeader, DeleteCategoryCall(2))
    \/ /\ 2 \in DOMAIN countries
       /\ InFlight("delete_country") = 0
       /\ \E r \in Slots :
             FirstIdle(r) /\ GateGet(r, AdminHeader, DeleteCountryCall(2))
    \/ /\ 2 \in DOMAIN rates
       /\ InFlight("delete_rate") = 0
       /\ \E r \in Slots :
             FirstIdle(r) /\ GateGet(r, AdminHeader, DeleteRateCall(2))
    \/ \E r \in Slots : GateExpire(r)
    \/ \E r \in Slots : CreateCityCountry(r)
    \/ \E r \in Slots : CreateCityInsert(r)
    \/ \E r \in Slots : CreateCustomerCity(r)
    \/ \E r \in Slots : CreateCustomerCategory(r)
    \/ \E r \in Slots : CreateCustomerInsert(r)
    \/ \E r \in Slots : UpdateCategoryRate(r)
    \/ \E r \in Slots : UpdateCategoryCount(r)
    \/ \E r \in Slots : UpdateCategoryExec(r)
    \/ \E r \in Slots : DeleteCityCount(r)
    \/ \E r \in Slots : DeleteCityExec(r)
    \/ \E r \in Slots : DeleteCategoryCount(r)
    \/ \E r \in Slots : DeleteCategoryExec(r)
    \/ \E r \in Slots : DeleteCountryCount(r)
    \/ \E r \in Slots : DeleteCountryExec(r)
    \/ \E r \in Slots : DeleteRateCount(r)
    \/ \E r \in Slots : DeleteRateExec(r)

SpecRefs == InitCallsPhones /\ [][NextRefs]_vars

(***************************************************************************)
(* The analytical queries: GET /cities/top (src/app/routers/cities.py),    *)
(* GET /customers/top_city and GET /customers/calls_with_all_cities        *)
(* (src/app/routers/customers.py).  Each is one SELECT; a result without   *)
(* ORDER BY is a set of rows.                                              *)
(***************************************************************************)
RECURSIVE SetSum(_, _)
\* the sum of f[x] over the x of S
SetSum(f, S) ==
    IF S = {} THEN 0
    ELSE LET x == CHOOSE y \in S : TRUE IN f[x] + SetSum(f, S \ {x})

GetTopCityCall == [op |-> "get_top_city", path |-> NoPath]

\* the join with CallFrom on the city of the callee instead
TopCityJoin_Callee ==
    {j \in (DOMAIN cities) \X (DOMAIN customers) \X (DOMAIN calls)
              \X (DOMAIN customers) :
        /\ j[1] = customers[j[4]].city_id
        /\ calls[j[3]].from_customer_id = j[2]
        /\ calls[j[3]].to_customer_id = j[4]}

\* City join CallFrom on City.id = CallFrom.city_id, join Call on
\* Call.from_customer_id = CallFrom.id, join CallTo on
\* Call.to_customer_id = CallTo.id: the rows <<City, CallFrom, Call, CallTo>>
TopCityJoin ==
    {j \in (DOMAIN cities) \X (DOMAIN customers) \X (DOMAIN calls)
              \X (DOMAIN customers) :
        /\ j[1] = customers[j[2]].city_id
        /\ calls[j[3]].from_customer_id = j[2]
        /\ calls[j[3]].to_customer_id = j[4]}

\* group_by(City.id) with count(): one row per city that has joined rows
TopCityGroups ==
    {[city |-> t,
      total_calls |-> Cardinality({j \in TopCityJoin : j[1] = t})] :
        t \in {j[1] : j \in TopCityJoin}}

\* order_by(count().desc()).limit(1): the rows that may come first
TopCityFirst ==
    {g \in TopCityGroups :
        \A h \in TopCityGroups : h.total_calls <= g.total_calls}

TopCity(g) ==
    [internal_calls |-> g.total_calls,
     city |-> CityRead(g.city, cities[g.city])]

\* await session.execute(...), then top_city.first(): the Result is never
\* None; first() of a result without rows is None, and unpacking None
\* raises TypeError, which is not caught
TopCityQuery(r) ==
    /\ pc[r] = "top_city_query"
    /\ IF TopCityFirst = {}
       THEN InternalServerError(r)
       ELSE \E g \in TopCityFirst :
               Return(r, Response(arg[r].op, arg[r].path, 200, TopCity(g)))
    /\ UNCHANGED <<db, cache, issued>>

GetCityStatsCall == [op |-> "get_city_stats", path |-> NoPath]

\* outgoing: Call join Receiver, grouped by (Call.from_customer_id,
\* Receiver.city_id), with count(Call.id)
Stats_outgoing ==
    {[side |-> "outgoing", customer_id |-> k[1], city_id |-> k[2],
      call_count |-> Cardinality({c \in DOMAIN calls :
                        /\ calls[c].from_customer_id = k[1]
                        /\ calls[c].to_customer_id \in DOMAIN customers
                        /\ customers[calls[c].to_customer_id].city_id = k[2]})] :
        k \in {<<calls[c].from_customer_id,
                 customers[calls[c].to_customer_id].city_id>> :
                  c \in {d \in DOMAIN calls :
                            calls[d].to_customer_id \in DOMAIN customers}}}

\* incoming: Call join Caller, grouped by (Call.to_customer_id,
\* Caller.city_id), with count(Call.id)
Stats_incoming ==
    {[side |-> "incoming", customer_id |-> k[1], city_id |-> k[2],
      call_count |-> Cardinality({c \in DOMAIN calls :
                        /\ calls[c].to_customer_id = k[1]
                        /\ calls[c].from_customer_id \in DOMAIN customers
                        /\ customers[calls[c].from_customer_id].city_id = k[2]})] :
        k \in {<<calls[c].to_customer_id,
                 customers[calls[c].from_customer_id].city_id>> :
                  c \in {d \in DOMAIN calls :
                            calls[d].from_customer_id \in DOMAIN customers}}}

\* calls_per_city without the incoming half
Stats_calls_per_city_Outgoing == Stats_outgoing

\* outgoing.union_all(incoming): the rows of both, none merged
Stats_calls_per_city == Stats_outgoing \cup Stats_incoming

\* ranked: grouped by (customer_id, city_id) with sum(call_count) and
\* rank() over (partition by customer_id order by sum(call_count) desc)
Stats_totals ==
    {[customer_id |-> k[1], city_id |-> k[2],
      total_calls |->
          LET rows == {x \in Stats_calls_per_city :
                          x.customer_id = k[1] /\ x.city_id = k[2]}
          IN SetSum([x \in rows |-> x.call_count], rows)] :
        k \in {<<x.customer_id, x.city_id>> : x \in Stats_calls_per_city}}

Stats_ranked ==
    {[customer_id |-> g.customer_id, city_id |-> g.city_id,
      total_calls |-> g.total_calls,
      rank |-> 1 + Cardinality({h \in Stats_totals :
                      /\ h.customer_id = g.customer_id
                      /\ h.total_calls > g.total_calls})] :
        g \in Stats_totals}

\* select(Customer, City, ranked.c.total_calls) joined on the ids, filtered
\* by rank == 1, as CustomerCityPairSchema
Stats_top_city_per_user ==
    {[customer |-> CustomerRead(g.customer_id, customers[g.customer_id]),
      city |-> CityRead(g.city_id, cities[g.city_id]),
      total_calls |-> g.total_calls] :
        g \in {h \in Stats_ranked :
                  /\ h.rank = 1
                  /\ h.customer_id \in DOMAIN customers
                  /\ h.city_id \in DOMAIN cities}}

CityStatsQuery(r) ==
    /\ pc[r] = "city_stats_query"
    /\ Return(r, Response(arg[r].op, arg[r].path, 200,
                          Stats_top_city_per_user))
    /\ UNCHANGED <<db, cache, issued>>

GetCustomersWithAllCitiesCall ==
    [op |-> "get_customers_with_all_cities", path |-> NoPath]

\* outgoing: (Call.from_customer_id, Receiver.city_id) of Call join Receiver
All_outgoing ==
    {[customer_id |-> calls[c].from_customer_id,
      city_id |-> customers[calls[c].to_customer_id].city_id] :
        c \in {d \in DOMAIN calls :
                  calls[d].to_customer_id \in DOMAIN customers}}

\* incoming: (Call.to_customer_id, Caller.city_id) of Call join Caller
All_incoming ==
    {[customer_id |-> calls[c].to_customer_id,
      city_id |-> customers[calls[c].from_customer_id].city_id] :
        c \in {d \in DOMAIN calls :
                  calls[d].from_customer_id \in DOMAIN customers}}

\* calls_per_city without the incoming half
All_calls_per_city_Outgoing == All_outgoing

\* outgoing.union_all(incoming); only the distinct rows matter to
\* count(distinct city_id)
All_calls_per_city == All_outgoing \cup All_incoming

\* customer_city_counts: grouped by customer_id, count(distinct city_id)
customer_city_counts ==
    {[customer_id |-> k,
      city_count |-> Cardinality({x.city_id : x \in
                        {y \in All_calls_per_city : y.customer_id = k}})] :
        k \in {x.customer_id : x \in All_calls_per_city}}

\* select(func.count(City.id))
total_cities == Cardinality(DOMAIN cities)

\* select(Customer) join customer_city_counts, filtered by
\* city_count == total_cities, as CustomerReadSchema
customers_with_all_cities ==
    {CustomerRead(g.customer_id, customers[g.customer_id]) :
        g \in {h \in customer_city_counts :
                  /\ h.customer_id \in DOMAIN customers
                  /\ h.city_count = total_cities}}

AllCitiesQuery(r) ==
    /\ pc[r] = "all_cities_query"
    /\ Return(r, Response(arg[r].op, arg[r].path, 200,
                          customers_with_all_cities))
    /\ UNCHANGED <<db, cache, issued>>

(***************************************************************************)
(* The queries over the tables that the writing routes can leave: the      *)
(* customers in cities 1 and 2, each with a phone number, and up to        *)
(* MaxStatCalls calls between two customers, all finished but possibly     *)
(* the last.  The requests are served one at a time, by the first slot.    *)
(***************************************************************************)
StatPhones ==
    [p \in 1..3 |-> [number |-> <<"+", Digits[p]>>, customer_id |-> p]]

\* the Call rows start_call and finish_call leave
StatCallRows(status) ==
    {[NewCall(CallData(f, t)) EXCEPT !.status = status] :
        <<f, t>> \in {p \in CustomerIds \X CustomerIds : p[1] # p[2]}}

InitStats ==
    /\ admins = InitAdmins
    /\ rates = InitRates
    /\ categories = InitCategories
    /\ countries = InitCountries
    /\ cities = InitCities
    /\ payments = InitPayments
    /\ id_seq = [InitIdSeq EXCEPT !["phone_numbers"] = 3]
    /\ \E cityOf \in [CustomerIds -> DOMAIN InitCities] :
          customers = [c \in CustomerIds |->
                          [InitCustomers[c] EXCEPT !.city_id = cityOf[c]]]
    /\ phone_numbers = StatPhones
    /\ \E n \in 0..MaxStatCalls :
          /\ calls \in [1..n -> StatCallRows(FINISHED)
                                   \cup StatCallRows(IN_PROGRESS)]
          /\ \A c \in 1..n : c < n => calls[c].status = FINISHED
          /\ call_id_seq = n
    /\ InitSlots
    /\ cache = RedisSet(EmptyStore, CacheKey_access_token(AdminToken),
                        RedisStr(1), access_token_ttl)
    /\ issued = {AdminToken}

NextStats ==
    \/ /\ OneAtATime
       /\ \E r \in Slots, h \in AdminHeaders :
             /\ FirstIdle(r)
             /\ \/ GateGet(r, h, GetTopCityCall)
                \/ GateGet(r, h, GetCityStatsCall)
                \/ GateGet(r, h, GetCustomersWithAllCitiesCall)
    \/ \E r \in Slots : GateExpire(r)
    \/ \E r \in Slots : TopCityQuery(r)
    \/ \E r \in Slots : CityStatsQuery(r)
    \/ \E r \in Slots : AllCitiesQuery(r)

SpecStats == InitStats /\ [][NextStats]_vars

(***************************************************************************)
(* PATCH /cities/{city_id} (src/app/routers/cities.py).  CityUpdateSchema  *)
(* carries name and zip_code; the handler discards what the repository     *)
(* returns, so the response is 200 with a null body.                       *)
(***************************************************************************)
UpdateCityCall(city_id, data) ==
    [op |-> "update_city", city_id |-> city_id, data |-> data,
     path |-> [city_id |-> city_id]]

\* city_repo.update: the count of the rows with id = city_id
UpdateCityCount(r) ==
    /\ pc[r] = "update_city_count"
    /\ IF RowsById(cities, arg[r].city_id) = {}
       THEN Return(r, HTTPException(arg[r].op, arg[r].path, 404,
                                    "No such city."))
       ELSE Goto(r, "update_city_exec", arg[r])
    /\ UNCHANGED <<db, cache, issued>>

\* city_repo.update: UPDATE cities SET ... WHERE id = :id RETURNING ..., and
\* commit.  When the row is gone after the count, the repository raises
\* NoResultFound or returns nothing, depending on its release.
UpdateCityExec(r) ==
    /\ pc[r] = "update_city_exec"
    /\ LET id == arg[r].city_id
       IN IF id \notin DOMAIN cities
          THEN /\ UNCHANGED cities
               /\ \/ Return(r, HTTPException(arg[r].op, arg[r].path, 404,
                                             "No such city."))
                  \/ Return(r, Response(arg[r].op, arg[r].path, 200, None))
          ELSE /\ cities' = [cities EXCEPT
                                ![id] = Patched(cities[id], arg[r].data)]
               /\ Return(r, Response(arg[r].op, arg[r].path, 200, None))
    /\ UNCHANGED <<admins, rates, categories, countries, payments, id_seq,
                   customers, phone_numbers, calls, call_id_seq, cache, issued>>

(***************************************************************************)
(* The three PATCH routes, interleaved with the deletes of city 2 and      *)
(* category 2.  Id 9 is in no table.  A delete arrives while its row       *)
(* exists; a request takes the first idle slot.                            *)
(***************************************************************************)
CustomerPatches ==
    {[fullname |-> <<"m">>], [city_id |-> 2, category_id |-> 2]}

CityPatches == {[name |-> <<"u">>], [zip_code |-> <<"y">>]}

CategoryPatches == {[name |-> <<"h">>], [rate_id |-> 2]}

NextPatch ==
    \/ \E r \in Slots, i \in {2, 9}, data \in CustomerPatches :
          /\ FirstIdle(r)
          /\ InFlight("update_customer") = 0
          /\ GateGet(r, AdminHeader, UpdateCustomerCall(i, data))
    \/ \E r \in Slots, i \in {2, 9}, data \in CityPatches :
          /\ FirstIdle(r)
          /\ InFlight("update_city") = 0
          /\ GateGet(r, AdminHeader, UpdateCityCall(i, data))
    \/ \E r \in Slots, i \in {2, 9}, data \in CategoryPatches :
          /\ FirstIdle(r)
          /\ InFlight("update_category") = 0
          /\ GateGet(r, AdminHeader, UpdateCategoryCall(i, data))
    \/ /\ 2 \in DOMAIN cities
       /\ InFlight("delete_city") = 0
       /\ \E r \in Slots :
             FirstIdle(r) /\ GateGet(r, AdminHeader, DeleteCityCall(2))
    \/ /\ 2 \in DOMAIN categories
       /\ InFlight("delete_category") = 0
       /\ \E r \in Slots :
             FirstIdle(r) /\ GateGet(r, AdminHeader, DeleteCategoryCall(2))
    \/ \E r \in Slots : GateExpire(r)
    \/ \E r \in Slots : UpdateCustomerCity(r)
    \/ \E r \in Slots : UpdateCustomerCategory(r)
    \/ \E r \in Slots : UpdateCustomerCount(r)
    \/ \E r \in Slots : UpdateCustomerExec(r)
    \/ \E r \in Slots : UpdateCityCount(r)
    \/ \E r \in Slots : UpdateCityExec(r)
    \/ \E r \in Slots : UpdateCategoryRate(r)
    \/ \E r \in Slots : UpdateCategoryCount(r)
    \/ \E r \in Slots : UpdateCategoryExec(r)
    \/ \E r \in Slots : DeleteCityCount(r)
    \/ \E r \in Slots : DeleteCityExec(r)
    \/ \E r \in Slots : DeleteCategoryCount(r)
    \/ \E r \in Slots : DeleteCategoryExec(r)

SpecPatch == InitCallsPhones /\ [][NextPatch]_vars

(***************************************************************************)
(* create_phone_number requests for customer 1, interleaved: numbers that  *)
(* are not registered at the start.  A request takes the first idle slot.  *)
(***************************************************************************)
RaceNumbers == {<<"+", Digits[i]>> : i \in 3..(2 + MaxPhones)}

NextPhoneRace ==
    \/ \E r \in Slots, n \in RaceNumbers :
          /\ FirstIdle(r)
          /\ ~NumberInUse(n)
          /\ GateGet(r, AdminHeader, CreatePhoneCall(PhoneData(n, 1)))
    \/ \E r \in Slots : GateExpire(r)
    \/ \E r \in Slots : CreatePhoneExists(r)
    \/ \E r \in Slots : CreatePhoneCount(r)
    \/ \E r \in Slots : CreatePhoneInsert(r)

SpecPhoneRace == InitCallsPhones /\ [][NextPhoneRace]_vars

(***************************************************************************)
(* GET /customers/monthly_call_sum/{customer_id} and                       *)
(* GET /customers/avg_call_charge_per_year (src/app/routers/customers.py). *)
(* A charge is a whole number of units; a mean is the fraction in lowest   *)
(* terms.                                                                  *)
(***************************************************************************)
RECURSIVE GCD(_, _)
GCD(a, b) == IF b = 0 THEN a ELSE GCD(b, a % b)

\* the sequences that hold each row of S once, in an order ORDER BY `key`
\* allows: rows of equal key come in any order
OrderedBy(S, key) ==
    {q \in [1..Cardinality(S) -> S] :
        /\ \A i, j \in 1..Cardinality(S) : i # j => q[i] # q[j]
        /\ \A i, j \in 1..Cardinality(S) : i < j => key[q[i]] <= key[q[j]]}

\* calendar.month_name
month_name ==
    <<"January", "February", "March", "April", "May", "June", "July",
      "August", "September", "October", "November", "December">>

GetMonthlyCallSumCall(customer_id) ==
    [op |-> "get_monthly_call_sum", customer_id |-> customer_id,
     path |-> [customer_id |-> customer_id]]

\* await pk_exists(session, Customer, customer_id)
MonthlyExists(r) ==
    /\ pc[r] = "monthly_exists"
    /\ IF pk_exists(customers, arg[r].customer_id)
       THEN Goto(r, "monthly_query", arg[r])
       ELSE InvalidInformation(r)
    /\ UNCHANGED <<db, cache, issued>>

\* the where clause without the status test
MonthlyWhere_AnyStatus(c, customer_id) ==
    /\ calls[c].from_customer_id = customer_id
    /\ calls[c].started_at.year = current_year

\* where(Call.from_customer_id == customer_id,
\*       Call.status == CallStatus.FINISHED, call_year == current_year)
MonthlyWhere(c, customer_id) ==
    /\ calls[c].from_customer_id = customer_id
    /\ calls[c].status = FINISHED
    /\ calls[c].started_at.year = current_year

\* group_by(call_month) with sum(Call.charge)
MonthlyGroups(customer_id) ==
    LET rows == {c \in DOMAIN calls : MonthlyWhere(c, customer_id)}
    IN {[month |-> m,
         total_charge |->
             LET of == {c \in rows : calls[c].started_at.month = m}
             IN SetSum([c \in of |-> calls[c].charge], of)] :
           m \in {calls[c].started_at.month : c \in rows}}

MonthKey(S) == [g \in S |-> g.month]

\* order_by(call_month), then MonthlyCallSumSchema of each row
MonthlyCallSum(customer_id) ==
    LET q == CHOOSE s \in OrderedBy(MonthlyGroups(customer_id),
                                    MonthKey(MonthlyGroups(customer_id))) : TRUE
    IN [i \in DOMAIN q |-> [month |-> month_name[q[i].month],
                            total_charge |-> q[i].total_charge]]

MonthlyQuery(r) ==
    /\ pc[r] = "monthly_query"
    /\ Return(r, Response(arg[r].op, arg[r].path, 200,
                          MonthlyCallSum(arg[r].customer_id)))
    /\ UNCHANGED <<db, cache, issued>>

GetAvgCallChargePerYearCall ==
    [op |-> "get_avg_call_charge_per_year", path |-> NoPath]

\* the join on the callee instead
AvgJoin_Callee ==
    {j \in (DOMAIN customers) \X (DOMAIN calls) :
        /\ calls[j[2]].to_customer_id = j[1]
        /\ calls[j[2]].status = FINISHED}

\* Customer join Call on Call.from_customer_id == Customer.id, filtered by
\* Call.status == CallStatus.FINISHED: the rows <<Customer, Call>>
AvgJoin ==
    {j \in (DOMAIN customers) \X (DOMAIN calls) :
        /\ calls[j[2]].from_customer_id = j[1]
        /\ calls[j[2]].status = FINISHED}

\* avg(Call.charge) of a group of calls
Avg(of) ==
    LET total == SetSum([c \in of |-> calls[c].charge], of)
        g == GCD(total, Cardinality(of))
    IN <<total \div g, Cardinality(of) \div g>>

\* group_by(Customer.id, call_year) with avg(Call.charge), as
\* AvgCallChargePerYearSchema
AvgGroups ==
    {[year |-> k[2],
      avg_charge |-> Avg({j[2] : j \in {i \in AvgJoin :
                        i[1] = k[1] /\ calls[i[2]].started_at.year = k[2]}}),
      customer |-> CustomerRead(k[1], customers[k[1]])] :
        k \in {<<j[1], calls[j[2]].started_at.year>> : j \in AvgJoin}}

YearKey(S) == [g \in S |-> g.year]

\* order_by(call_year): rows of one year come in any order
AvgQuery(r) ==
    /\ pc[r] = "avg_query"
    /\ \E q \in OrderedBy(AvgGroups, YearKey(AvgGroups)) :
          Return(r, Response(arg[r].op, arg[r].path, 200, q))
    /\ UNCHANGED <<db, cache, issued>>

(***************************************************************************)
(* The two queries over calls between customers 1 and 2 whose start and    *)
(* charge are what the clock and the database left: up to MaxChargedCalls  *)
(* rows, this year or last, all finished but possibly the last.            *)
(***************************************************************************)
Instants ==
    {[year |-> current_year - 1, month |-> 3],
     [year |-> current_year, month |-> 3],
     [year |-> current_year, month |-> 4]}

ChargedCallRows(status) ==
    {[NewCall(CallData(p[1], p[2])) EXCEPT
         !.status = status, !.started_at = t, !.charge = c] :
        p \in {<<1, 2>>, <<2, 1>>}, t \in Instants, c \in {1, 2}}

InitCallStats ==
    /\ admins = InitAdmins
    /\ rates = InitRates
    /\ categories = InitCategories
    /\ countries = InitCountries
    /\ cities = InitCities
    /\ payments = InitPayments
    /\ id_seq = InitIdSeq
    /\ customers = InitCustomers
    /\ phone_numbers = InitPhones
    /\ \E n \in 0..MaxChargedCalls :
          /\ calls \in [1..n -> ChargedCallRows(FINISHED)
                                   \cup ChargedCallRows(IN_PROGRESS)]
          /\ \A c \in 1..n : c < n => calls[c].status = FINISHED
          /\ call_id_seq = n
    /\ InitSlots
    /\ cache = RedisSet(EmptyStore, CacheKey_access_token(AdminToken),
                        RedisStr(1), access_token_ttl)
    /\ issued = {AdminToken}

\* the two queries write nothing: one request per drawn table shows every
\* answer they can give
NextCallStats ==
    \/ /\ OneAtATime
       /\ resp = NoResp
       /\ \E r \in Slots, h \in AdminHeaders :
             /\ FirstIdle(r)
             /\ \/ \E i \in {1, 2, 9} : GateGet(r, h, GetMonthlyCallSumCall(i))
                \/ GateGet(r, h, GetAvgCallChargePerYearCall)
    \/ \E r \in Slots : GateExpire(r)
    \/ \E r \in Slots : MonthlyExists(r)
    \/ \E r \in Slots : MonthlyQuery(r)
    \/ \E r \in Slots : AvgQuery(r)

SpecCallStats == InitCallStats /\ [][NextCallStats]_vars


(***************************************************************************)
(* SpecCallReports: the call life cycle between customers 1 and 2 and the  *)
(* two charge reports, asked by an administrator whose token is in the     *)
(* store while no other request is being served.                           *)
(***************************************************************************)
NextCallReports ==
    \/ \E r \in Slots, f \in 1..2, t \in 1..2 :
          FirstIdle(r) /\ StartCall(r, CallData(f, t))
    \/ \E r \in Slots : StartPhoneFrom(r)
    \/ \E r \in Slots : StartPhoneTo(r)
    \/ \E r \in Slots : StartCreate(r)
    \/ \E r \in Slots, c \in 1..MaxCalls :
          FirstIdle(r) /\ FinishCall(r, c)
    \/ \E r \in Slots : FinishUpdate(r)
    \/ /\ OneAtATime
       /\ \E r \in Slots :
             /\ FirstIdle(r)
             /\ \/ \E i \in 1..2 :
                      GateGet(r, AdminHeader, GetMonthlyCallSumCall(i))
                \/ GateGet(r, AdminHeader, GetAvgCallChargePerYearCall)
    \/ \E r \in Slots : GateExpire(r)
    \/ \E r \in Slots : MonthlyExists(r)
    \/ \E r \in Slots : MonthlyQuery(r)
    \/ \E r \in Slots : AvgQuery(r)

SpecCallReports == InitCallsPhones /\ [][NextCallReports]_vars


(***************************************************************************)
(* GET /calls/{call_id} and the dependencies of the routes                 *)
(* (src/app/routers/calls.py).                                             *)
(***************************************************************************)
StartCallCall(data) == [op |-> "start_call", data |-> data, path |-> NoPath]

FinishCallCall(call_id) ==
    [op |-> "finish_call", call_id |-> call_id, path |-> FinishPath(call_id)]

GetCallCall(call_id) ==
    [op |-> "get_call", call_id |-> call_id, path |-> [call_id |-> call_id]]

\* GET /calls/{call_id} arrives: call_repo.get and `if call is None`
GetCall(r, call_id) ==
    /\ pc[r] = "idle"
    /\ IF RowsById(calls, call_id) = {}
       THEN Return(r, HTTPException("get_call", [call_id |-> call_id], 404,
                                    "No such call."))
       ELSE Return(r, Response("get_call", [call_id |-> call_id], 200,
                               CallRead(call_id, calls[call_id])))
    /\ UNCHANGED <<db, cache, issued>>

\* every route declared with dependencies=[Depends(check_auth_token)]
Dependencies_Everywhere(op) == {"check_auth_token"}

\* the dependencies of the decorator of a route: the routes of call_router
\* are declared without, the routes of the other routers the model holds
\* with dependencies=[Depends(check_auth_token)]
Dependencies(op) ==
    IF op \in {"start_call", "finish_call", "get_call"}
    THEN {}
    ELSE {"check_auth_token"}

\* a request arrives with `header`: the dependencies of the route run, then
\* its handler
Request(r, header, call) ==
    IF "check_auth_token" \in Dependencies(call.op)
    THEN GateGet(r, header, call)
    ELSE CASE call.op = "start_call" -> StartCall(r, call.data)
           [] call.op = "finish_call" -> FinishCall(r, call.call_id)
           [] call.op = "get_call" -> GetCall(r, call.call_id)

(***************************************************************************)
(* SpecCallGate: the call routes and one protected route, asked with no    *)
(* header, with a token the store does not hold and with the token of an   *)
(* administrator, one request after the other, while the Redis clock runs  *)
(* the store empty.                                                        *)
(***************************************************************************)
GateHeaders ==
    {NoHeader, AdminHeader,
     Header(Bearer \o (CHOOSE t \in Uuids : t # AdminToken))}

CallRequests ==
    {StartCallCall(CallData(f, t)) : f \in 1..2, t \in 1..2}
    \cup {FinishCallCall(c) : c \in 1..MaxCalls}
    \cup {GetCallCall(c) : c \in 1..MaxCalls}

NextCallGate ==
    \/ \E r \in Slots, h \in GateHeaders,
          call \in CallRequests \cup {GetMonthlyCallSumCall(1)} :
          OneAtATime /\ FirstIdle(r) /\ Request(r, h, call)
    \/ \E r \in Slots : StartPhoneFrom(r)
    \/ \E r \in Slots : StartPhoneTo(r)
    \/ \E r \in Slots : StartCreate(r)
    \/ \E r \in Slots : FinishUpdate(r)
    \/ \E r \in Slots : GateExpire(r)
    \/ \E r \in Slots : MonthlyExists(r)
    \/ \E r \in Slots : MonthlyQuery(r)
    \/ Tick

SpecCallGate == InitCallsPhones /\ [][NextCallGate]_vars


(***************************************************************************)
(* GET /customers/in_debt (src/app/routers/customers.py).  An amount is a  *)
(* whole number of units.                                                  *)
(***************************************************************************)
GetCustomersInDebtCall == [op |-> "get_customers_in_debt", path |-> NoPath]

\* select customer_id, coalesce(sum(amount), 0) from payments
\* group by customer_id
payments_sum_subq ==
    {[customer_id |-> k,
      total_payments |->
          LET of == {p \in DOMAIN payments : payments[p].customer_id = k}
          IN SetSum([p \in of |-> payments[p].amount], of)] :
        k \in {payments[p].customer_id : p \in DOMAIN payments}}

\* customers left outer join payments_sum_subq, coalesce(total_payments, 0)
debt_subq ==
    {[customer_id |-> c,
      debt |-> LET sums == {s \in payments_sum_subq : s.customer_id = c}
               IN IF sums = {} THEN 0
                  ELSE (CHOOSE s \in sums : TRUE).total_payments] :
        c \in DOMAIN customers}

\* select max(debt) from debt_subq, as the sequence of its value: empty
\* for the NULL that max gives over no rows
max_debt_subq ==
    IF debt_subq = {} THEN <<>>
    ELSE <<CHOOSE m \in {d.debt : d \in debt_subq} :
              \A d \in debt_subq : d.debt <= m>>

\* the comparison made strict
InDebtFilter_Strict(debt, max) == max # <<>> /\ 10 * debt > 7 * max[1]

\* debt >= 0.7 * max_debt_subq: a comparison with NULL selects nothing
InDebtFilter(debt, max) == max # <<>> /\ 10 * debt >= 7 * max[1]

\* the rows of the join of Customer and debt_subq that pass the filter, as
\* InDebtCustomerSchema
InDebtQuery(r) ==
    /\ pc[r] = "in_debt_query"
    /\ Return(r, Response(arg[r].op, arg[r].path, 200,
          {[customer |-> CustomerRead(d.customer_id, customers[d.customer_id]),
            debt |-> d.debt] :
              d \in {e \in debt_subq : InDebtFilter(e.debt, max_debt_subq)}}))
    /\ UNCHANGED <<db, cache, issued>>

(***************************************************************************)
(* SpecDebt: the in-debt query over payments of the customers 1..3 that    *)
(* were written outside the routes modelled here: up to MaxPayments rows   *)
(* in the order of their customers, all pending but possibly the last.     *)
(* The query reads neither the id nor the status of a payment.             *)
(***************************************************************************)
Amounts == {0 - 100, 0, 69, 70, 100}

PaymentRows(status) ==
    {[amount |-> a, customer_id |-> c, status |-> status] :
        a \in Amounts, c \in DOMAIN InitCustomers}

InitDebt ==
    /\ admins = InitAdmins
    /\ rates = InitRates
    /\ categories = InitCategories
    /\ countries = InitCountries
    /\ cities = InitCities
    /\ id_seq = InitIdSeq
    /\ customers = InitCustomers
    /\ phone_numbers = InitPhones
    /\ calls = <<>>
    /\ call_id_seq = 0
    /\ \E n \in 0..MaxPayments :
          /\ payments \in [1..n -> PaymentRows("PENDING")
                                      \cup PaymentRows("SUCCESS")]
          /\ \A p \in 1..n : p < n => payments[p].status = "PENDING"
          /\ \A p, q \in 1..n :
                p < q => payments[p].customer_id <= payments[q].customer_id
    /\ InitSlots
    /\ cache = RedisSet(EmptyStore, CacheKey_access_token(AdminToken),
                        RedisStr(1), access_token_ttl)
    /\ issued = {AdminToken}

\* the query writes nothing: one request per drawn table shows every answer
\* it can give
NextDebt ==
    \/ /\ OneAtATime
       /\ resp = NoResp
       /\ \E r \in Slots, h \in AdminHeaders :
             FirstIdle(r) /\ GateGet(r, h, GetCustomersInDebtCall)
    \/ \E r \in Slots : GateExpire(r)
    \/ \E r \in Slots : InDebtQuery(r)

SpecDebt == InitDebt /\ [][NextDebt]_vars

(***************************************************************************)
(* Properties of the token life cycle.                                     *)
(***************************************************************************)
\* the header value with a leading 'Bearer ' taken off
StripBearerPrefix(s) ==
    IF Len(s) >= Len(Bearer) /\ SubSeq(s, 1, Len(Bearer)) = Bearer
    THEN SubSeq(s, Len(Bearer) + 1, Len(s))
    ELSE s

\* the header is absent, empty, or names (prefix removed) no live entry
NamesNoLiveEntry(header) ==
    \/ ~header.present
    \/ header.value = <<>>
    \/ CacheKey_access_token(StripBearerPrefix(header.value))
           \notin DOMAIN cache

\* C1: a protected request whose authorization header is absent, empty, or,
\* after removing the 'Bearer ' prefix, names a token without a live entry
\* in the token store ends with 401; its handler is not run, and neither the
\* relational store nor the token store changes.
C1_GateRejection ==
    [][\A r \in Slots, h \in Headers, c \in ProtectedCalls :
          (GateGet(r, h, c) /\ NamesNoLiveEntry(h))
          => /\ resp'.status = 401
             /\ pc'[r] = "idle"
             /\ cache' = cache
             /\ db' = db]_vars

\* C2: whenever the gate lets a request through for a token, the token is in
\* the store with the full access_token_ttl right after the gate completes.
C2_SlidingExpiration ==
    [][\A r \in Slots :
          (pc[r] = "gate_expire" /\ pc'[r] # "gate_expire")
          => /\ arg[r].cache_key \in DOMAIN cache'
             /\ cache'[arg[r].cache_key].ttl = access_token_ttl]_vars

\* no admin row carries this username with the hash of this password
BadCredentials(username, password) ==
    \A a \in DOMAIN admins :
        admins[a].username = username
        => admins[a].password # generate_password_hash(password)

\* C3: a login whose username matches no admin, or whose salted password
\* hash differs from the stored one, ends with 401, returns no token and
\* leaves the token store as it was.
C3_FailedLogin ==
    [][\A r \in Slots, u \in Usernames, p \in Passwords :
          (Login(r, u, p) /\ BadCredentials(u, p))
          => /\ resp'.op = "login"
             /\ resp'.status = 401
             /\ resp'.body = <<>>
             /\ pc'[r] = "idle"
             /\ cache' = cache]_vars

\* a login has failed while the store held a session
C3_Witness ==
    /\ resp.op = "login"
    /\ resp.status = 401
    /\ DOMAIN cache # {}

\* C4: a login with matching credentials is not refused, and when it
\* completes it has added exactly one entry to the token store, under the key
\* of a token that had no entry, holding the admin's id with the full
\* access_token_ttl; the response carries that token and the scheme label
\* 'bearer'; every other entry is as it was.
C4_SuccessfulLogin ==
    [][/\ \A r \in Slots, u \in Usernames, p \in Passwords :
            (Login(r, u, p) /\ ~BadCredentials(u, p))
            => pc'[r] = "login_set" /\ arg'[r].username = u /\ cache' = cache
       /\ \A r \in Slots :
            (pc[r] = "login_set" /\ pc'[r] # "login_set")
            => /\ resp'.op = "login"
               /\ resp'.status = 200
               /\ resp'.body.token_type = "bearer"
               /\ LET key == CacheKey_access_token(resp'.body.access_token)
                  IN /\ key \notin DOMAIN cache
                     /\ DOMAIN cache' = DOMAIN cache \cup {key}
                     /\ \A k \in DOMAIN cache : cache'[k] = cache[k]
                     /\ cache'[key].ttl = access_token_ttl
                     /\ \E a \in DOMAIN admins :
                           /\ admins[a].username = arg[r].username
                           /\ cache'[key].value = RedisStr(a)]_vars

\* a login has just succeeded while another session, of the other admin and
\* with less time left, is in the store
C4_Witness ==
    /\ resp.op = "login"
    /\ resp.status = 200
    /\ LET key == CacheKey_access_token(resp.body.access_token)
       IN /\ key \in DOMAIN cache
          /\ cache[key].ttl = access_token_ttl
          /\ \E k \in DOMAIN cache :
                /\ k # key
                /\ cache[k].ttl < access_token_ttl
                /\ cache[k].value # cache[key].value

(***************************************************************************)
(* Properties of the call life cycle.                                      *)
(***************************************************************************)
\* the calls in progress in which the customer takes part
ActiveCallsOf(customer_id) ==
    {c \in DOMAIN calls :
        /\ calls[c].status = IN_PROGRESS
        /\ customer_id \in {calls[c].from_customer_id, calls[c].to_customer_id}}

Busy(customer_id) == ActiveCallsOf(customer_id) # {}

\* slot r takes a step that ends its handler at position `at`
Leaves(r, at) == pc[r] = at /\ pc'[r] # at

\* C5: every Call row is created IN_PROGRESS; the only change of status a
\* row undergoes is IN_PROGRESS -> FINISHED; a FINISHED row stays FINISHED.
C5_CallStateMachine ==
    [][\A c \in DOMAIN calls' :
          IF c \in DOMAIN calls
          THEN \/ calls'[c].status = calls[c].status
               \/ calls[c].status = IN_PROGRESS /\ calls'[c].status = FINISHED
          ELSE calls'[c].status = IN_PROGRESS]_vars

\* a call has just been finished while a later one is in progress
C5_Witness ==
    /\ resp.op = "finish_call"
    /\ resp.status = 200
    /\ calls[resp.path.call_id].status = FINISHED
    /\ \E c \in DOMAIN calls : calls[c].status = IN_PROGRESS

\* C6: no customer takes part in more than one call in progress.
C6_OneActiveCallPerCustomer ==
    \A customer_id \in CustomerIds :
        Cardinality(ActiveCallsOf(customer_id)) <= 1

\* C7: start_call with from_customer_id = to_customer_id ends with 404 and
\* creates no row, and no Call row has from_customer_id = to_customer_id.
C7_NoSelfCalls ==
    /\ [](\A c \in DOMAIN calls :
             calls[c].from_customer_id # calls[c].to_customer_id)
    /\ [][\A r \in Slots, f \in CustomerIds :
             StartCall(r, CallData(f, f))
             => /\ resp'.op = "start_call"
                /\ resp'.status = 404
                /\ pc'[r] = "idle"
                /\ db' = db]_vars

\* a self-call has been refused while a call stands in the table
C7_Witness ==
    /\ resp.detail = "Cannot make a call with the same customer."
    /\ resp.status = 404
    /\ DOMAIN calls # {}

\* C8: a Call row is created only when, at the moment of creation, both of
\* its customers own a phone number; a start_call that finds a customer
\* without a phone number ends with 404 and creates no row.
C8_PhonePrerequisite ==
    [][/\ \A c \in DOMAIN calls' \ DOMAIN calls :
             /\ PhoneCount(calls'[c].from_customer_id) > 0
             /\ PhoneCount(calls'[c].to_customer_id) > 0
       /\ \A r \in Slots :
             \/ Leaves(r, "start_phone_from")
                   /\ PhoneCount(arg[r].data.from_customer_id) = 0
             \/ Leaves(r, "start_phone_to")
                   /\ PhoneCount(arg[r].data.to_customer_id) = 0
             => resp'.status = 404 /\ pc'[r] = "idle" /\ calls' = calls]_vars

\* C9: finish_call for an id without a row, or of a FINISHED call, ends with
\* 404 and changes no Call row; finish_call for a call in progress is let
\* through and, the call still being in progress at the update, ends with
\* 200 and the call FINISHED - after which the first clause refuses it.
C9_FinishNonMatching ==
    [][/\ \A r \in Slots, id \in CallIds :
             (FinishCall(r, id)
                /\ (id \notin DOMAIN calls \/ calls[id].status = FINISHED))
             => /\ resp'.op = "finish_call"
                /\ resp'.status = 404
                /\ pc'[r] = "idle"
                /\ calls' = calls
       /\ \A r \in Slots, id \in CallIds :
             (FinishCall(r, id)
                /\ id \in DOMAIN calls /\ calls[id].status = IN_PROGRESS)
             => pc'[r] = "finish_update" /\ calls' = calls
       /\ \A r \in Slots :
             (Leaves(r, "finish_update")
                /\ calls[arg[r].call_id].status = IN_PROGRESS)
             => /\ resp'.op = "finish_call"
                /\ resp'.status = 200
                /\ resp'.body.id = arg[r].call_id
                /\ resp'.body.status = FINISHED
                /\ calls'[arg[r].call_id].status = FINISHED
                /\ \A c \in DOMAIN calls \ {arg[r].call_id} :
                      calls'[c] = calls[c]]_vars

\* finish_call has been refused for a call that is FINISHED
C9_Witness ==
    /\ resp.op = "finish_call"
    /\ resp.status = 404
    /\ resp.path.call_id \in DOMAIN calls
    /\ calls[resp.path.call_id].status = FINISHED

\* C10: a start_call that names a customer who is in a call in progress, as
\* either party, ends with 404 and creates no row; a start_call between two
\* distinct customers neither of whom is in a call in progress is not
\* refused for that, goes on while the customer it checks owns a phone
\* number, and then creates the call.  (The first steps of start_call are
\* looked for among the steps that write no row and leave an idle slot idle
\* or at the first phone count.)
C10_BusyThenFree ==
    [][/\ \A r \in Slots :
             (pc[r] = "idle" /\ pc'[r] \in {"idle", "start_phone_from"}
                /\ calls' = calls)
             => \A f \in CustomerIds, t \in CustomerIds :
                   StartCall(r, CallData(f, t))
                   => IF Busy(f) \/ Busy(t)
                      THEN /\ resp'.op = "start_call"
                           /\ resp'.status = 404
                           /\ pc'[r] = "idle"
                           /\ calls' = calls
                      ELSE f # t => pc'[r] = "start_phone_from"
       /\ \A r \in Slots :
             (Leaves(r, "start_phone_from")
                /\ PhoneCount(arg[r].data.from_customer_id) > 0)
             => pc'[r] = "start_phone_to"
       /\ \A r \in Slots :
             (Leaves(r, "start_phone_to")
                /\ PhoneCount(arg[r].data.to_customer_id) > 0)
             => pc'[r] = "start_create"
       /\ \A r \in Slots :
             Leaves(r, "start_create")
             => /\ resp'.op = "start_call"
                /\ resp'.status = 200
                /\ resp'.body.id \in DOMAIN calls' \ DOMAIN calls
                /\ calls'[resp'.body.id].status = IN_PROGRESS
                /\ calls'[resp'.body.id].from_customer_id
                      = arg[r].data.from_customer_id
                /\ calls'[resp'.body.id].to_customer_id
                      = arg[r].data.to_customer_id]_vars

\* a start_call has been refused for a busy customer whose earlier call is
\* FINISHED and whose later call, started after that, is in progress
C10_Witness ==
    /\ resp.op = "start_call"
    /\ resp.detail = "One of the customers is already in an active call."
    /\ \E c1 \in DOMAIN calls, c2 \in DOMAIN calls :
          /\ c1 < c2
          /\ calls[c1].status = FINISHED
          /\ calls[c2].status = IN_PROGRESS
          /\ calls[c1].from_customer_id
                \in {calls[c2].from_customer_id, calls[c2].to_customer_id}

(***************************************************************************)
(* Properties of the registry of customers and phone numbers.              *)
(***************************************************************************)
\* the request in slot r is for an existing customer below the limit and
\* carries a number that is not registered
PhoneCreatable(r) ==
    /\ arg[r].data.customer_id \in DOMAIN customers
    /\ PhoneCount(arg[r].data.customer_id) < max_phone_numbers
    /\ \A p \in DOMAIN phone_numbers :
          phone_numbers[p].number # arg[r].data.number

\* C11: with requests served one at a time, create_phone_number for an
\* existing customer who owns fewer than max_phone_numbers numbers, with a
\* number not in use, goes through its checks, answers 200 and adds exactly
\* that row; for a customer who owns max_phone_numbers or more it answers 403
\* and adds no row; and no customer ever owns more than max_phone_numbers
\* numbers.
C11_PhoneLimit ==
    /\ [](\A c \in DOMAIN customers : PhoneCount(c) <= max_phone_numbers)
    /\ [][\A r \in Slots :
            /\ (Leaves(r, "create_phone_count")
                  /\ PhoneCount(arg[r].data.customer_id) >= max_phone_numbers)
               => /\ resp'.op = "create_phone_number"
                  /\ resp'.status = 403
                  /\ pc'[r] = "idle"
                  /\ phone_numbers' = phone_numbers
            /\ (Leaves(r, "create_phone_exists") /\ PhoneCreatable(r))
               => pc'[r] = "create_phone_count"
            /\ (Leaves(r, "create_phone_count") /\ PhoneCreatable(r))
               => pc'[r] = "create_phone_insert"
            /\ (Leaves(r, "create_phone_insert") /\ PhoneCreatable(r))
               => /\ resp'.op = "create_phone_number"
                  /\ resp'.status = 200
                  /\ resp'.body.id \in DOMAIN phone_numbers' \ DOMAIN phone_numbers
                  /\ DOMAIN phone_numbers'
                        = DOMAIN phone_numbers \cup {resp'.body.id}
                  /\ phone_numbers'[resp'.body.id] = arg[r].data
                  /\ \A p \in DOMAIN phone_numbers :
                        phone_numbers'[p] = phone_numbers[p]]_vars

\* a create_phone_number has been refused for a customer who owns
\* max_phone_numbers numbers, the last of them created by a request
C11_Witness ==
    /\ resp.op = "create_phone_number"
    /\ resp.status = 403
    /\ \E c \in DOMAIN customers :
          /\ PhoneCount(c) = max_phone_numbers
          /\ \E p \in DOMAIN phone_numbers :
                /\ p > InitIdSeq["phone_numbers"]
                /\ phone_numbers[p].customer_id = c

\* C12: in every reachable state no two Customer rows share a passport and
\* no two PhoneNumber rows share a number.
C12_GlobalUniqueness ==
    /\ \A c1 \in DOMAIN customers, c2 \in DOMAIN customers :
          c1 # c2 => customers[c1].passport # customers[c2].passport
    /\ \A p1 \in DOMAIN phone_numbers, p2 \in DOMAIN phone_numbers :
          p1 # p2 => phone_numbers[p1].number # phone_numbers[p2].number

\* a create_customer has passed its checks and is about to INSERT a
\* passport that a customer created or changed meanwhile holds
C12_Witness ==
    \E r \in Slots :
       /\ pc[r] = "create_customer_insert"
       /\ arg[r].data.passport = FreshPassport
       /\ \E c \in DOMAIN customers : customers[c].passport = FreshPassport

\* some customer holds the passport
PassportHeld(passport) ==
    passport \in {customers[c].passport : c \in DOMAIN customers}

\* some phone number row carries the number
NumberRegistered(number) ==
    number \in {phone_numbers[p].number : p \in DOMAIN phone_numbers}

\* C13: a create_customer whose passport a customer holds (city and
\* category existing) and a create_phone_number whose number is registered
\* (customer existing and below the limit) pass the checks before the INSERT,
\* then answer 409 and add no row.
C13_DuplicateConflict ==
    [][\A r \in Slots :
          /\ (Leaves(r, "create_customer_city")
                /\ PassportHeld(arg[r].data.passport)
                /\ arg[r].data.city_id \in DOMAIN cities)
             => pc'[r] = "create_customer_category"
          /\ (Leaves(r, "create_customer_category")
                /\ PassportHeld(arg[r].data.passport)
                /\ arg[r].data.category_id \in DOMAIN categories)
             => pc'[r] = "create_customer_insert"
          /\ (Leaves(r, "create_customer_insert")
                /\ PassportHeld(arg[r].data.passport))
             => /\ resp'.op = "create_customer"
                /\ resp'.status = 409
                /\ customers' = customers
          /\ (Leaves(r, "create_phone_exists")
                /\ NumberRegistered(arg[r].data.number)
                /\ arg[r].data.customer_id \in DOMAIN customers)
             => pc'[r] = "create_phone_count"
          /\ (Leaves(r, "create_phone_count")
                /\ NumberRegistered(arg[r].data.number)
                /\ Cardinality({p \in DOMAIN phone_numbers :
                      phone_numbers[p].customer_id = arg[r].data.customer_id})
                      < max_phone_numbers)
             => pc'[r] = "create_phone_insert"
          /\ (Leaves(r, "create_phone_insert")
                /\ NumberRegistered(arg[r].data.number))
             => /\ resp'.op = "create_phone_number"
                /\ resp'.status = 409
                /\ phone_numbers' = phone_numbers]_vars

\* a create_phone_number has been refused with 409 for a number that is
\* registered
C13_Witness ==
    /\ resp.op = "create_phone_number"
    /\ resp.status = 409
    /\ \E p \in DOMAIN phone_numbers : phone_numbers[p].number = FreshNumber

\* the answer of pk_exists for a missing row has been sent for `op`
RefusedAsInvalid(op) ==
    /\ resp'.op = op
    /\ resp'.status = 404
    /\ resp'.detail = "Invalid information supplied."

\* C14: create_category with a rate_id of no Rate, create_city with a
\* country_id of no Country, create_customer with a city_id of no City or a
\* category_id of no Category, and create_phone_number with a customer_id of
\* no Customer end with 404 at the existence check, before any INSERT: no
\* table and no identity sequence changes.
C14_ForeignKeyPreCheck ==
    [][\A r \in Slots :
          /\ (Leaves(r, "create_category_rate")
                /\ arg[r].data.rate_id \notin DOMAIN rates)
             => RefusedAsInvalid("create_category") /\ pc'[r] = "idle"
                   /\ db' = db
          /\ (Leaves(r, "create_city_country")
                /\ arg[r].data.country_id \notin DOMAIN countries)
             => RefusedAsInvalid("create_city") /\ pc'[r] = "idle"
                   /\ db' = db
          /\ (\/ Leaves(r, "create_customer_city")
                   /\ arg[r].data.city_id \notin DOMAIN cities
              \/ Leaves(r, "create_customer_category")
                   /\ arg[r].data.category_id \notin DOMAIN categories)
             => RefusedAsInvalid("create_customer") /\ pc'[r] = "idle"
                   /\ db' = db
          /\ (Leaves(r, "create_phone_exists")
                /\ arg[r].data.customer_id \notin DOMAIN customers)
             => RefusedAsInvalid("create_phone_number") /\ pc'[r] = "idle"
                   /\ db' = db]_vars

\* a create_city has been refused for the country_id of a deleted Country
\* while the tables are as they were but for that Country
C14_Witness ==
    /\ resp.op = "create_city"
    /\ resp.status = 404
    /\ resp.detail = "Invalid information supplied."
    /\ 2 \notin DOMAIN countries
    /\ id_seq = InitIdSeq

\* C16: the DELETE of delete_city for a City that exists ends with success
\* and leaves neither the City nor a Customer of it; the DELETE of the
\* countries router for a Country that exists ends with success and leaves
\* neither the Country, nor a City of it, nor a Customer of such a City.
C16_CascadeDelete ==
    [][\A r \in Slots :
          /\ (Leaves(r, "delete_city_exec") /\ arg[r].city_id \in DOMAIN cities)
             => /\ resp'.op = "delete_city"
                /\ resp'.status = 204
                /\ arg[r].city_id \notin DOMAIN cities'
                /\ \A c \in DOMAIN customers' :
                      customers'[c].city_id # arg[r].city_id
          /\ (Leaves(r, "delete_country_exec")
                /\ arg[r].id \in DOMAIN countries)
             => /\ resp'.op = "delete_country"
                /\ resp'.status = 200
                /\ arg[r].id \notin DOMAIN countries'
                /\ \A t \in DOMAIN cities' :
                      cities'[t].country_id # arg[r].id
                /\ \A c \in DOMAIN customers' :
                      customers'[c].city_id \in DOMAIN cities'
                         => cities'[customers'[c].city_id].country_id
                               # arg[r].id]_vars

\* C15: in every reachable state each City.country_id is the id of a
\* Country, each Category.rate_id of a Rate, each Customer.city_id of a
\* City, each Customer.category_id of a Category, and each
\* PhoneNumber.customer_id, Payment.customer_id, Call.from_customer_id and
\* Call.to_customer_id of a Customer.
C15_ReferentialIntegrity ==
    /\ \A t \in DOMAIN cities : cities[t].country_id \in DOMAIN countries
    /\ \A g \in DOMAIN categories : categories[g].rate_id \in DOMAIN rates
    /\ \A c \in DOMAIN customers :
          /\ customers[c].city_id \in DOMAIN cities
          /\ customers[c].category_id \in DOMAIN categories
    /\ \A p \in DOMAIN phone_numbers :
          phone_numbers[p].customer_id \in DOMAIN customers
    /\ \A p \in DOMAIN payments : payments[p].customer_id \in DOMAIN customers
    /\ \A c \in DOMAIN calls :
          /\ calls[c].from_customer_id \in DOMAIN customers
          /\ calls[c].to_customer_id \in DOMAIN customers


\* a create_customer passed both existence checks, city 2 was deleted, and
\* the INSERT was refused
C15_Witness ==
    /\ resp.op = "create_customer"
    /\ resp.status = 500
    /\ 2 \notin DOMAIN cities
    /\ 2 \in DOMAIN categories


\* C17: get_top_city asked while the calls table is empty answers 200 with
\* the null value.
C17_TopCityNoData ==
    [][\A r \in Slots :
          (Leaves(r, "top_city_query") /\ DOMAIN calls = {})
          => /\ resp'.op = "get_top_city"
             /\ resp'.status = 200
             /\ resp'.body = None]_vars

\* the city the customer lives in
CityOf(customer_id) == customers[customer_id].city_id

\* the number of Call rows whose caller lives in the city
CallsFromCity(city_id) ==
    Cardinality({c \in DOMAIN calls :
                    CityOf(calls[c].from_customer_id) = city_id})

CallsWithCity(customer_id, city_id) ==
    Cardinality({c \in DOMAIN calls :
        \/ /\ calls[c].from_customer_id = customer_id
           /\ CityOf(calls[c].to_customer_id) = city_id
        \/ /\ calls[c].to_customer_id = customer_id
           /\ CityOf(calls[c].from_customer_id) = city_id})

\* the favourite cities of the customers: the cities of a positive and
\* maximal number of calls
FavouriteCities ==
    {[customer |-> CustomerRead(k[1], customers[k[1]]),
      city |-> CityRead(k[2], cities[k[2]]),
      total_calls |-> CallsWithCity(k[1], k[2])] :
        k \in {p \in (DOMAIN customers) \X (DOMAIN cities) :
                  /\ CallsWithCity(p[1], p[2]) > 0
                  /\ \A u \in DOMAIN cities :
                        CallsWithCity(p[1], u) <= CallsWithCity(p[1], p[2])}}

CitiesReached(customer_id) ==
    {CityOf(calls[c].to_customer_id) :
        c \in {d \in DOMAIN calls :
                  calls[d].from_customer_id = customer_id}}
    \cup {CityOf(calls[c].from_customer_id) :
            c \in {d \in DOMAIN calls :
                      calls[d].to_customer_id = customer_id}}

\* C20: get_customers_with_all_cities answers 200 with exactly the
\* customers the cities of the other parties of whose calls, of any status,
\* are as many as the City rows; without calls the list is empty.
C20_FullCoverage ==
    [][\A r \in Slots :
          Leaves(r, "all_cities_query")
          => /\ resp'.op = "get_customers_with_all_cities"
             /\ resp'.status = 200
             /\ resp'.body =
                   {CustomerRead(c, customers[c]) :
                       c \in {d \in DOMAIN customers :
                                 Cardinality(CitiesReached(d))
                                    = Cardinality(DOMAIN cities)}}
             /\ DOMAIN calls = {} => resp'.body = {}]_vars

\* get_customers_with_all_cities has answered a customer who reached both
\* cities by calls received, one of them in progress, and left out one who
\* reached a single city
C20_Witness ==
    /\ resp.op = "get_customers_with_all_cities"
    /\ resp.status = 200
    /\ \E c \in DOMAIN customers :
          /\ CustomerRead(c, customers[c]) \in resp.body
          /\ \A k \in DOMAIN calls : calls[k].to_customer_id = c
          /\ \E k \in DOMAIN calls : calls[k].status = IN_PROGRESS
    /\ \E d \in DOMAIN customers :
          /\ CustomerRead(d, customers[d]) \notin resp.body
          /\ Cardinality(CitiesReached(d)) = Cardinality(DOMAIN cities) - 1


\* C26: of the finish_call requests for one call, the one whose UPDATE finds
\* the call IN_PROGRESS answers 200 and leaves it FINISHED; every other one,
\* whose UPDATE finds the call FINISHED, answers 404 and changes no row.
C26_ExactlyOneFinishWins ==
    [][\A r \in Slots :
          Leaves(r, "finish_update")
          => IF calls[arg[r].call_id].status = IN_PROGRESS
             THEN /\ resp'.op = "finish_call"
                  /\ resp'.status = 200
                  /\ calls'[arg[r].call_id].status = FINISHED
             ELSE /\ resp'.op = "finish_call"
                  /\ resp'.status = 404
                  /\ calls' = calls]_vars


\* the row `id` of the table has the fields `data` supplies written over,
\* its other fields and the other rows are as they were
OnlySupplied(table, tableAfter, id, data, done) ==
    /\ DOMAIN tableAfter = DOMAIN table
    /\ \A i \in DOMAIN table \ {id} : tableAfter[i] = table[i]
    /\ \A f \in DOMAIN table[id] \ DOMAIN data :
          tableAfter[id][f] = table[id][f]
    /\ IF done THEN \A f \in DOMAIN data : tableAfter[id][f] = data[f]
       ELSE tableAfter = table

\* C24: the UPDATE of update_customer, update_city and update_category for a
\* row that exists writes the supplied fields and nothing else; a request
\* for an id without a row, at its lookup or at its UPDATE, ends with 404 and
\* changes no table.
C24_PartialUpdate ==
    [][\A r \in Slots :
          /\ (Leaves(r, "update_customer_exec")
                /\ arg[r].customer_id \in DOMAIN customers)
             => OnlySupplied(customers, customers', arg[r].customer_id,
                             arg[r].data, resp'.status = 200)
          /\ (Leaves(r, "update_city_exec") /\ arg[r].city_id \in DOMAIN cities)
             => OnlySupplied(cities, cities', arg[r].city_id,
                             arg[r].data, resp'.status = 200)
          /\ (Leaves(r, "update_category_exec")
                /\ arg[r].category_id \in DOMAIN categories)
             => OnlySupplied(categories, categories', arg[r].category_id,
                             arg[r].data, resp'.status = 200)
          /\ (/\ pc[r] \notin {"idle", "gate_expire"}
              /\ pc'[r] = "idle"
              /\ \/ arg[r].op = "update_customer"
                       /\ arg[r].customer_id \notin DOMAIN customers
                 \/ arg[r].op = "update_city"
                       /\ arg[r].city_id \notin DOMAIN cities
                 \/ arg[r].op = "update_category"
                       /\ arg[r].category_id \notin DOMAIN categories)
             => resp'.status = 404 /\ db' = db]_vars


\* the ids of the rows the step adds to the table are above every value the
\* sequence has given out, and the sequence does not go back
FreshIds(table, tableAfter, seq, seqAfter) ==
    /\ seqAfter >= seq
    /\ \A i \in DOMAIN tableAfter \ DOMAIN table : i > seq /\ i <= seqAfter

\* C25: the id of every row is at least 1 and at most the last value of the
\* sequence of its table; the id of a row a creation adds is above every
\* value the sequence gave out before, so it is the id of no row that was
\* ever in the table, deleted or not; and the creation answers that id.
C25_FreshIdentifiers ==
    /\ [](/\ DOMAIN cities \subseteq 1..id_seq["cities"]
          /\ DOMAIN categories \subseteq 1..id_seq["categories"]
          /\ DOMAIN customers \subseteq 1..id_seq["customers"]
          /\ DOMAIN phone_numbers \subseteq 1..id_seq["phone_numbers"])
    /\ [][/\ FreshIds(cities, cities', id_seq["cities"], id_seq'["cities"])
          /\ FreshIds(categories, categories',
                      id_seq["categories"], id_seq'["categories"])
          /\ FreshIds(customers, customers',
                      id_seq["customers"], id_seq'["customers"])
          /\ FreshIds(phone_numbers, phone_numbers',
                      id_seq["phone_numbers"], id_seq'["phone_numbers"])
          /\ \A r \in Slots :
                (pc[r] \in {"create_city_insert", "create_category_insert",
                            "create_customer_insert", "create_phone_insert"}
                   /\ pc'[r] = "idle" /\ resp'.status = 200)
                => /\ resp'.body.id >= 1
                   /\ resp'.body.id > id_seq[CASE
                         pc[r] = "create_city_insert" -> "cities"
                         [] pc[r] = "create_category_insert" -> "categories"
                         [] pc[r] = "create_customer_insert" -> "customers"
                         [] OTHER -> "phone_numbers"]]_vars

\* a create_city has answered id 3 after city 2 was deleted
C25_Witness ==
    /\ resp.op = "create_city"
    /\ resp.status = 200
    /\ resp.body.id = 3
    /\ DOMAIN cities = {1, 3}


\* C27: a create_phone_number whose count finds the customer below the
\* limit goes on to the INSERT, whatever other requests have counted; its
\* INSERT of a number that is not registered, for a customer that exists,
\* adds the row and answers 200, whatever the customer owns by then.
C27_PhoneLimitRace ==
    [][\A r \in Slots :
          /\ (Leaves(r, "create_phone_count")
                /\ PhoneCount(arg[r].data.customer_id) < max_phone_numbers)
             => pc'[r] = "create_phone_insert" /\ phone_numbers' = phone_numbers
          /\ (Leaves(r, "create_phone_insert")
                /\ ~NumberRegistered(arg[r].data.number)
                /\ arg[r].data.customer_id \in DOMAIN customers)
             => /\ resp'.op = "create_phone_number"
                /\ resp'.status = 200
                /\ Cardinality({p \in DOMAIN phone_numbers' :
                        phone_numbers'[p].customer_id
                           = arg[r].data.customer_id})
                      = PhoneCount(arg[r].data.customer_id) + 1]_vars

\* two requests counted max_phone_numbers - 1 numbers of customer 1 before
\* either inserted, both inserted, and the customer owns
\* max_phone_numbers + 1 numbers
C27_Witness ==
    /\ PhoneCount(1) = max_phone_numbers + 1
    /\ resp.op = "create_phone_number"
    /\ resp.status = 200


\* the finished calls the customer made in month m of the current year
ChargedIn(customer_id, m) ==
    {c \in DOMAIN calls :
        /\ calls[c].from_customer_id = customer_id
        /\ calls[c].status = FINISHED
        /\ calls[c].started_at = [year |-> current_year, month |-> m]}

\* the number of the month a row of the monthly list names
MonthOf(row) == CHOOSE m \in 1..12 : month_name[m] = row.month

FinishedIn(customer_id, year) ==
    {c \in DOMAIN calls :
        /\ calls[c].from_customer_id = customer_id
        /\ calls[c].status = FINISHED
        /\ calls[c].started_at.year = year}

\* C23: get_avg_call_charge_per_year answers 200 with one row per customer
\* and year in which the customer made a FINISHED call, holding the customer,
\* the year and the mean of the charges of those calls, the rows of an
\* earlier year before those of a later one.
C23_AvgChargePerYear ==
    [][\A r \in Slots :
          Leaves(r, "avg_query")
          => LET body == resp'.body
                 years == {calls[c].started_at.year : c \in DOMAIN calls}
             IN /\ resp'.op = "get_avg_call_charge_per_year"
                /\ resp'.status = 200
                /\ \A i \in DOMAIN body :
                      LET of == FinishedIn(body[i].customer.id, body[i].year)
                      IN /\ body[i].customer.id \in DOMAIN customers
                         /\ body[i].customer =
                               CustomerRead(body[i].customer.id,
                                            customers[body[i].customer.id])
                         /\ of # {}
                         /\ body[i].avg_charge[2] > 0
                         /\ body[i].avg_charge[1] * Cardinality(of) =
                               body[i].avg_charge[2]
                                  * SetSum([c \in of |-> calls[c].charge], of)
                /\ \A d \in DOMAIN customers, y \in years :
                      FinishedIn(d, y) # {}
                      => Cardinality({i \in DOMAIN body :
                                         /\ body[i].customer.id = d
                                         /\ body[i].year = y}) = 1
                /\ \A i, j \in DOMAIN body :
                      i < j => body[i].year <= body[j].year
                /\ UNCHANGED db]_vars

\* get_avg_call_charge_per_year has answered the mean 3/2 of two calls of a
\* customer this year after a row of last year, leaving out nothing
C23_Witness ==
    /\ resp.op = "get_avg_call_charge_per_year"
    /\ resp.status = 200
    /\ Len(resp.body) = 2
    /\ resp.body[1].year = current_year - 1
    /\ resp.body[2].year = current_year
    /\ resp.body[2].avg_charge = <<3, 2>>


Arrives(r, call) ==
    /\ pc[r] = "idle"
    /\ \/ pc'[r] # "idle" /\ arg'[r].op = call.op
       \/ pc' = pc /\ arg' = arg /\ resp'.op = call.op /\ resp'.path = call.path

\* C29: a request for start_call, finish_call or get_call does in one step
\* the same thing whatever Authorization header it carries (none, a token
\* the store does not hold, a token it holds): it never waits at the gate,
\* and neither it nor any later step of the handler changes a key, a value
\* or a time to live of the token store; get_call answers by the calls
\* table alone.
C29_CallRoutesBypassGate ==
    [][\A r \in Slots :
          /\ \A call \in CallRequests, h \in GateHeaders :
                /\ Arrives(r, call)
                /\ Request(r, h, call)
                => /\ \A g \in GateHeaders : Request(r, g, call)
                   /\ pc'[r] # "gate_expire"
                   /\ UNCHANGED <<cache, issued>>
                   /\ call.op = "get_call"
                      => /\ UNCHANGED db
                         /\ resp'.op = "get_call"
                         /\ resp'.status =
                               IF call.call_id \in DOMAIN calls
                               THEN 200 ELSE 404
          /\ /\ pc[r] # "idle"
             /\ arg[r].op \in {"start_call", "finish_call", "get_call"}
             /\ pc'[r] # pc[r]
             => UNCHANGED <<cache, issued>>]_vars

\* start_call has answered 200 after the token store ran empty
C29_Witness ==
    /\ resp.op = "start_call"
    /\ resp.status = 200
    /\ cache = EmptyStore
    /\ \A r \in Slots : pc[r] = "idle"
    /\ Cardinality(DOMAIN calls) = 1


\* the sum of the amounts of the payments of a customer, of every status: 0
\* without payments
PaymentTotal(customer_id) ==
    LET of == {p \in DOMAIN payments :
                  payments[p].customer_id = customer_id}
    IN SetSum([p \in of |-> payments[p].amount], of)

\* the greatest total of a customer
MaxPaymentTotal ==
    CHOOSE m \in {PaymentTotal(c) : c \in DOMAIN customers} :
        \A c \in DOMAIN customers : PaymentTotal(c) <= m

\* C22: get_customers_in_debt answers 200 with exactly the customers whose
\* total of payment amounts, of every status and 0 without payments, is at
\* least 70% of the greatest total of a customer, each with that total; a
\* total of exactly 70% is in, and with a greatest total of 0 every customer
\* of total 0 is in.
C22_InDebtThreshold ==
    [][\A r \in Slots :
          Leaves(r, "in_debt_query")
          => /\ resp'.op = "get_customers_in_debt"
             /\ resp'.status = 200
             /\ resp'.body =
                   {[customer |-> CustomerRead(c, customers[c]),
                     debt |-> PaymentTotal(c)] :
                       c \in {d \in DOMAIN customers :
                                 10 * PaymentTotal(d) >= 7 * MaxPaymentTotal}}
             /\ MaxPaymentTotal = 0
                => \A c \in DOMAIN customers :
                      PaymentTotal(c) = 0
                      => \E row \in resp'.body : row.customer.id = c
             /\ UNCHANGED db]_vars

\* get_customers_in_debt has answered the customers of totals 100 and 70 and
\* left out the one of total 69, a payment being SUCCESS
C22_Witness ==
    /\ resp.op = "get_customers_in_debt"
    /\ resp.status = 200
    /\ {row.debt : row \in resp.body} = {100, 70}
    /\ \E c \in DOMAIN customers : PaymentTotal(c) = 69
    /\ \E p \in DOMAIN payments : payments[p].status = "SUCCESS"

\* C30: with at least one customer, get_customers_in_debt answers a list
\* that is not empty and holds every customer whose total is the greatest,
\* whatever the amounts, negative ones included.
C30_ResultContainsMaximum ==
    [][\A r \in Slots :
          Leaves(r, "in_debt_query") /\ DOMAIN customers # {}
          => /\ resp'.body # {}
             /\ \A c \in DOMAIN customers :
                   PaymentTotal(c) = MaxPaymentTotal
                   => \E row \in resp'.body : row.customer.id = c]_vars

====
